---- MODULE Spec2Model ----
\* Model of accelerate's data_loader.py: the batch sharding and dispatch
\* subsystem (BatchSamplerShard, IterableDatasetShard, DataLoaderStateMixin,
\* DataLoaderShard, DataLoaderDispatcher, SkipBatchSampler, SkipDataLoader).
\* Batches are sequences of dataset indices; a tensor batch is represented
\* by the sequence of the items along its first dimension.
EXTENDS Integers, Sequences, FiniteSets, TLC

\* ------------------------------------------------------------------ bounds
MaxProcesses == 3
MaxBatchSize == 4
MaxItems == 8
MaxWorld == 2
MaxLoaderItems == 6
MaxSkip == 1
MaxSessionItems == 2
MaxSessionBatch == 1
MaxTraversals == 2
MaxYielded == 2
MaxAxes == 2
MaxDispatchItems == 3
MaxEpoch == 2
MaxStreamProcesses == 2
MaxSetEpoch == 1
MaxAxisSize == 3

\* ------------------------------------------------------------------ state
VARIABLES
    num_processes,  \* number of cooperating processes
    batch_size,     \* nominal batch size of the wrapped batch sampler / base loader
    drop_last,      \* drop_last of the wrapped batch sampler / _drop_last of the loader
    even_batches,   \* BatchSamplerShard.even_batches
    split_batches,  \* split_batches of the shard / dispatcher
    batch_sampler,  \* the batches the wrapped source yields, in order
    has_batch_size, \* whether the batch_size attribute read through the wrapped object exists
    has_num_processes, \* whether the object total_batch_size reads carries the sharding attributes
    dataset_length, \* len(self.dataset) of the loader, -1 when the dataset is not sized
    ragged,         \* index of the base batch whose trailing shape differs from the others, 0 if none
    submesh_tp,     \* DataLoaderDispatcher.submesh_tp is set: a device mesh with a "tp" axis only
    shard,          \* per process: the running BatchSamplerShard.__iter__ generator
    variant,        \* which loader class is traversed
    base_dataloader, \* the batches the wrapped base loader yields, in order
    skip_batches,   \* skip_batches of the loader
    disp,           \* per process: the running DataLoaderDispatcher.__iter__ generator
    channel,        \* the values process 0 has broadcast so far, in order
    loader,         \* the running DataLoaderShard / SkipDataLoader __iter__ generator
    iterable_dataset, \* the elements the dataset wrapped by IterableDatasetShard yields
    iterable_shard, \* per process: the running IterableDatasetShard.__iter__ generator
    adapter,        \* a DataLoaderAdapter about to capture its base loader's checkpoint
    topology        \* prepare_data_loader's process_index / num_processes under a device mesh

vars == <<num_processes, batch_size, drop_last, even_batches, split_batches,
          batch_sampler, has_batch_size, has_num_processes, dataset_length, ragged, submesh_tp, shard, variant, base_dataloader, skip_batches, disp,
          channel, loader, iterable_dataset, iterable_shard, adapter, topology>>

pureVars == <<adapter, topology>>

streamVars == <<iterable_dataset, iterable_shard>>

loaderVars == <<variant, base_dataloader, skip_batches, disp, channel, loader>>

config == <<num_processes, batch_size, drop_last, even_batches, split_batches,
            batch_sampler, has_batch_size, has_num_processes, dataset_length, ragged, submesh_tp>>

Procs == 0 .. (num_processes - 1)

\* ------------------------------------------------------------ Python helpers
Min(a, b) == IF a < b THEN a ELSE b

\* Python list slicing s[a:b] for 0 <= a, 0 <= b (indices are clamped).
PySlice(s, a, b) == SubSeq(s, a + 1, Min(b, Len(s)))

\* math.ceil(a / b) for a >= 0, b > 0.
CeilDiv(a, b) == (a + b - 1) \div b

RECURSIVE Flatten(_)
Flatten(ss) == IF Len(ss) = 0 THEN <<>> ELSE Head(ss) \o Flatten(Tail(ss))

\* torch BatchSampler over a sequential sampler of n indices: consecutive
\* batches of bs indices; the short last batch is kept unless dl.
SourceLength(n, bs, dl) == IF dl THEN n \div bs ELSE CeilDiv(n, bs)

SourceBatches(n, bs, dl) ==
    [i \in 1 .. SourceLength(n, bs, dl) |->
        [j \in 1 .. Min(bs, n - (i - 1) * bs) |-> (i - 1) * bs + j - 1]]

\* ------------------------------------------------------- BatchSamplerShard
\* BatchSamplerShard.__init__: the configuration check.
ConstructorRejects(split, bs, P) == split /\ bs % P # 0

\* BatchSamplerShard.__init__ as a whole: the check reads
\* batch_sampler.batch_size directly, self.batch_size is read with a default
\* of None and is required when even_batches.
ConstructorOutcome(split, even, has, bs, P) ==
    IF split /\ ~has THEN "attribute_error"
    ELSE IF ConstructorRejects(split, bs, P) THEN "config_error"
    ELSE IF ~has /\ even THEN "config_error"
    ELSE "iter"

\* batch_length = batch_size // num_processes (split mode).
batch_length == batch_size \div num_processes

\* batch[batch_length * process_index : batch_length * (process_index + 1)]
ProcessSlice_m(b, p) == PySlice(b, batch_length * p + 1, batch_length * (p + 1) + 1)
ProcessSlice(b, p) == PySlice(b, batch_length * p, batch_length * (p + 1))

\* idx % num_processes == process_index: the batch of this round that this process owns.
OwnsBatch_first(i, p) == i % num_processes = 0
OwnsBatch_m(i, p) == i % num_processes = (p + 1) % num_processes
OwnsBatch(i, p) == i % num_processes = p

\* The round is complete and its last batch is full: every process gets a batch.
RoundComplete_m(i, b, p) == i % num_processes = p
RoundComplete(i, b, p) ==
    /\ i % num_processes = num_processes - 1
    /\ (~has_batch_size \/ Len(b) = batch_size)

\* while len(initial_data) < target: initial_data += initial_data
RECURSIVE Doubled(_, _)
Doubled_m(s, target) == s
Doubled(s, target) == IF Len(s) >= target THEN s ELSE Doubled(s \o s, target)

\* The closing loop of _iter_with_no_split: completes the last round with
\* indices of initial_data and gives the batches of process p.
RECURSIVE CycleFill_m(_, _, _, _, _)
RECURSIVE CycleFill(_, _, _, _, _)
CycleFill_m(i, b, cycle_index, init, p) ==
    IF i % num_processes = 0 /\ Len(b) = 0
    THEN <<>>
    ELSE LET end_index == cycle_index + batch_size - Len(b)
             nb == b \o PySlice(init, 0, end_index - cycle_index)
         IN  (IF i % num_processes = p THEN <<nb>> ELSE <<>>)
             \o CycleFill_m(i + 1, <<>>, end_index, init, p)
CycleFill(i, b, cycle_index, init, p) ==
    IF i % num_processes = 0 /\ Len(b) = 0
    THEN <<>>
    ELSE LET end_index == cycle_index + batch_size - Len(b)
             nb == b \o PySlice(init, cycle_index, end_index)
         IN  (IF i % num_processes = p THEN <<nb>> ELSE <<>>)
             \o CycleFill(i + 1, <<>>, end_index, init, p)

\* What _iter_with_split yields after the loop (s is the generator of process p).
SplitTail(s, p) ==
    IF ~drop_last /\ Len(s.initial_data) > 0 /\ Len(s.batch) < batch_size
    THEN IF ~even_batches
         THEN IF Len(s.batch) > batch_length * p
              THEN <<ProcessSlice(s.batch, p)>>
              ELSE <<>>
         ELSE LET init == Doubled(s.initial_data, batch_size)
                  \* initial_data is the very list `batch` when the source
                  \* has one batch: the in-place += grows both
                  last == IF s.idx = 1 THEN init ELSE s.batch
              IN  <<ProcessSlice(last \o init, p)>>
    ELSE <<>>

\* The uneven tail: the kept batch is yielded if this process holds one.
UnevenTail_m(s) == <<s.batch_to_yield>>
UnevenTail(s) == IF Len(s.batch_to_yield) > 0 THEN <<s.batch_to_yield>> ELSE <<>>

\* What _iter_with_no_split yields after the loop.
NoSplitTail(s, p) ==
    IF ~drop_last /\ Len(s.initial_data) > 0
    THEN IF ~even_batches
         THEN UnevenTail(s)
         ELSE LET kept == IF Len(s.batch_to_yield) = batch_size
                          THEN <<s.batch_to_yield>> ELSE <<>>
                  init == Doubled(s.initial_data, num_processes * batch_size)
                  full == Len(s.batch) = batch_size
                  b    == IF full THEN <<>> ELSE s.batch
                  \* s.idx counts the batches consumed; the loop variable is s.idx - 1
                  i    == IF full THEN s.idx ELSE s.idx - 1
              IN  kept \o CycleFill(i, b, 0, init, p)
    ELSE <<>>

NewShard == [pc |-> "new", idx |-> 0, initial_data |-> <<>>, batch_to_yield |-> <<>>,
             batch |-> <<>>, out |-> <<>>]

\* BatchSamplerShard(...) then iter(): the constructor check, the generator starts.
Construct(p) ==
    /\ shard[p].pc = "new"
    /\ shard' = [shard EXCEPT ![p].pc =
                    ConstructorOutcome(split_batches, even_batches, has_batch_size,
                                       batch_size, num_processes)]
    /\ UNCHANGED <<config, streamVars, pureVars, loaderVars>>

\* One turn of the for loop of _iter_with_split.
IterWithSplitStep(p) ==
    LET s == shard[p]
        b == batch_sampler[s.idx + 1]
    IN  /\ s.pc = "iter" /\ split_batches
        /\ s.idx < Len(batch_sampler)
        /\ shard' = [shard EXCEPT ![p] =
              [s EXCEPT !.idx = s.idx + 1,
                        !.batch = b,
                        !.initial_data = IF s.idx = 0 THEN b ELSE s.initial_data,
                        !.out = IF Len(b) = batch_size
                                THEN Append(s.out, ProcessSlice(b, p)) ELSE s.out]]
        /\ UNCHANGED <<config, streamVars, pureVars, loaderVars>>

\* One turn of the for loop of _iter_with_no_split.
IterWithNoSplitStep(p) ==
    LET s == shard[p]
        i == s.idx
        b == batch_sampler[i + 1]
        kept == IF OwnsBatch(i, p) THEN b ELSE s.batch_to_yield
        yields == RoundComplete(i, b, p)
    IN  /\ s.pc = "iter" /\ ~split_batches
        /\ s.idx < Len(batch_sampler)
        /\ shard' = [shard EXCEPT ![p] =
              [s EXCEPT !.idx = i + 1,
                        !.batch = b,
                        !.initial_data = IF ~drop_last /\ i < num_processes
                                         THEN s.initial_data \o b ELSE s.initial_data,
                        !.batch_to_yield = IF yields THEN <<>> ELSE kept,
                        !.out = IF yields THEN Append(s.out, kept) ELSE s.out]]
        /\ UNCHANGED <<config, streamVars, pureVars, loaderVars>>

\* The source is exhausted: the code after the for loop, then the generator ends.
IterExhausted(p) ==
    LET s == shard[p]
    IN  /\ s.pc = "iter"
        /\ s.idx = Len(batch_sampler)
        /\ shard' = [shard EXCEPT ![p] =
              [s EXCEPT !.pc = "done",
                        !.out = s.out \o (IF split_batches THEN SplitTail(s, p)
                                          ELSE NoSplitTail(s, p))]]
        /\ UNCHANGED <<config, streamVars, pureVars, loaderVars>>

InitSampler ==
    /\ num_processes \in 1 .. MaxProcesses
    /\ batch_size \in 1 .. MaxBatchSize
    /\ drop_last \in BOOLEAN
    /\ even_batches \in BOOLEAN
    /\ split_batches \in BOOLEAN
    /\ \E n \in 0 .. MaxItems : batch_sampler = SourceBatches(n, batch_size, drop_last)
    /\ has_batch_size \in BOOLEAN
    /\ has_num_processes = TRUE
    /\ dataset_length = 0
    /\ shard = [p \in Procs |-> NewShard]
    /\ variant = "sampler"
    /\ base_dataloader = <<>>
    /\ skip_batches = 0
    /\ disp = <<>>
    /\ channel = <<>>
    /\ loader = <<>>
    /\ iterable_dataset = <<>>
    /\ iterable_shard = <<>>
    /\ adapter = <<>>
    /\ topology = <<>>
    /\ ragged = 0
    /\ submesh_tp = FALSE

NextSampler ==
    \/ \E p \in Procs : Construct(p)
    \/ \E p \in Procs : IterWithSplitStep(p)
    \/ \E p \in Procs : IterWithNoSplitStep(p)
    \/ \E p \in Procs : IterExhausted(p)

SpecSampler == InitSampler /\ [][NextSampler]_vars

\* BatchSamplerShard.__len__ on process p.
ShardLen(p) ==
    LET L == Len(batch_sampler)
        length == L \div num_processes
    IN  IF split_batches THEN L
        ELSE IF L % num_processes = 0 THEN length
        ELSE IF drop_last THEN length
        ELSE IF even_batches THEN length + 1
        ELSE IF p < L % num_processes THEN length + 1 ELSE length

\* ------------------------------------------------------------ claim helpers
AllDone == \A p \in Procs : shard[p].pc = "done"
SrcLen == Len(batch_sampler)
SrcItems == Flatten(batch_sampler)

\* The batches of all processes, round after round, in process order.
RECURSIVE RoundRobin(_, _)
RoundRobin(r, p) ==
    IF p = num_processes THEN RoundRobin(r + 1, 0)
    ELSE IF r > Len(shard[p].out) THEN <<>>
    ELSE <<shard[p].out[r]>> \o RoundRobin(r, p + 1)

\* Source round r (0-based) is complete: its num_processes batches all exist
\* and all have the nominal size.
FullRound(r) ==
    /\ (r + 1) * num_processes <= SrcLen
    /\ \A q \in Procs : Len(batch_sampler[r * num_processes + q + 1]) = batch_size

\* The indices the padding draws from: those of the first num_processes batches.
FirstRoundItems == Flatten(SubSeq(batch_sampler, 1, Min(num_processes, SrcLen)))

\* ------------------------------------------------------------------ claims
\* C1: with split_batches=false, the r-th batch yielded by process p is source
\* batch r*P+p, for every round r whose P source batches exist and are full;
\* a finished process has yielded every such batch.
C1_RoundRobinAssignment ==
    ~split_batches =>
        \A p \in Procs : \A r \in 0 .. SrcLen :
            FullRound(r) =>
                /\ Len(shard[p].out) > r =>
                       shard[p].out[r + 1] = batch_sampler[r * num_processes + p + 1]
                /\ shard[p].pc = "done" => Len(shard[p].out) > r

\* The docstring scenario: [[0,1,2,3],[4,5,6,7]] on two processes, no split.
C1_Witness ==
    /\ ~split_batches /\ num_processes = 2 /\ AllDone
    /\ batch_sampler = <<<<0, 1, 2, 3>>, <<4, 5, 6, 7>>>>
    /\ shard[0].out = <<<<0, 1, 2, 3>>>>
    /\ shard[1].out = <<<<4, 5, 6, 7>>>>

\* C2: with split_batches=true, for every full source batch r the r-th batch
\* yielded by process p is the slice [p*(bs/P), (p+1)*(bs/P)) of source batch r.
C2_SplitSlices ==
    split_batches =>
        \A p \in Procs : \A r \in 1 .. SrcLen :
            Len(batch_sampler[r]) = batch_size =>
                /\ Len(shard[p].out) >= r =>
                       shard[p].out[r] =
                           [j \in 1 .. batch_length |->
                               batch_sampler[r][p * batch_length + j]]
                /\ shard[p].pc = "done" => Len(shard[p].out) >= r

\* The docstring scenario with split_batches=true.
C2_Witness ==
    /\ split_batches /\ num_processes = 2 /\ AllDone
    /\ batch_sampler = <<<<0, 1, 2, 3>>, <<4, 5, 6, 7>>>>
    /\ shard[0].out = <<<<0, 1>>, <<4, 5>>>>
    /\ shard[1].out = <<<<2, 3>>, <<6, 7>>>>

\* C3: split_batches=false, drop_last=false, even_batches=true, L >= 1: every
\* process yields ceil(L/P) batches, and the yielded batches read round by
\* round in process order are the source indices followed by the indices of
\* the first P source batches, cycled, in their original order.
C3_EvenPadding ==
    (~split_batches /\ ~drop_last /\ even_batches /\ SrcLen >= 1 /\ AllDone) =>
        /\ \A p \in Procs : Len(shard[p].out) = CeilDiv(SrcLen, num_processes)
        /\ LET all == Flatten(RoundRobin(1, 0))
               n   == Len(SrcItems)
               fst == FirstRoundItems
           IN  /\ Len(all) = num_processes * batch_size * CeilDiv(SrcLen, num_processes)
               /\ \A k \in 1 .. Len(all) :
                      all[k] = IF k <= n THEN SrcItems[k]
                               ELSE fst[((k - n - 1) % Len(fst)) + 1]

\* A source with fewer than P*batch_size indices, padded by more than one cycle.
C3_Witness ==
    /\ ~split_batches /\ ~drop_last /\ even_batches /\ AllDone
    /\ num_processes = 3 /\ batch_size = 2 /\ Len(SrcItems) = 1
    /\ shard[2].out = <<<<0, 0>>>>

\* C4: with even_batches=true, in both strategies and for both drop_last, all
\* processes yield the same number of batches and every yielded batch has the
\* same size (batch_size, or batch_size/P when splitting).
C4_EvenBatches ==
    even_batches =>
        /\ AllDone => \A p, q \in Procs : Len(shard[p].out) = Len(shard[q].out)
        /\ \A p \in Procs : \A r \in 1 .. Len(shard[p].out) :
               Len(shard[p].out[r]) = IF split_batches THEN batch_length ELSE batch_size

\* A split source with fewer indices than one batch, padded for every process.
C4_Witness ==
    /\ even_batches /\ split_batches /\ ~drop_last /\ AllDone
    /\ num_processes = 2 /\ batch_size = 4 /\ Len(SrcItems) = 1
    /\ shard[1].out = <<<<0, 0>>>>

\* C5: split_batches=false on a drop_last=true source of L batches: every
\* process yields floor(L/P) batches (P*floor(L/P) in total) and no batch of an
\* incomplete last round is yielded.
C5_DropLastTotal ==
    (~split_batches /\ drop_last /\ AllDone) =>
        /\ \A p \in Procs : Len(shard[p].out) = SrcLen \div num_processes
        /\ Len(RoundRobin(1, 0)) = num_processes * (SrcLen \div num_processes)
        /\ RoundRobin(1, 0) =
               SubSeq(batch_sampler, 1, num_processes * (SrcLen \div num_processes))

\* A source whose last round is incomplete: 3 batches on 2 processes.
C5_Witness ==
    /\ ~split_batches /\ drop_last /\ AllDone
    /\ num_processes = 2 /\ SrcLen = 3
    /\ Len(shard[0].out) = 1 /\ Len(shard[1].out) = 1

\* C6: split_batches=false, drop_last=false, even_batches=false: the processes
\* with index < L mod P yield floor(L/P)+1 batches, the others floor(L/P), and
\* every yielded batch is a source batch yielded once (nothing is duplicated).
C6_UnevenTail ==
    (~split_batches /\ ~drop_last /\ ~even_batches /\ AllDone) =>
        /\ \A p \in Procs :
               Len(shard[p].out) = (SrcLen \div num_processes)
                                   + (IF p < SrcLen % num_processes THEN 1 ELSE 0)
        /\ RoundRobin(1, 0) = batch_sampler

\* Three batches on two processes: process 0 gets one batch more.
C6_Witness ==
    /\ ~split_batches /\ ~drop_last /\ ~even_batches /\ AllDone
    /\ num_processes = 2 /\ SrcLen = 3
    /\ Len(shard[0].out) = 2 /\ Len(shard[1].out) = 1

\* ======================================================= DataLoaderAdapter
\* The checkpoint of a StatefulDataLoader, by the keys the adapter reads:
\* the counters of yielded batches, samples_yielded of _index_sampler_state
\* (-1 when that state is None or lacks the key), the finished flag and
\* everything else (an opaque value).
StateDict(sampler_iter_yielded, num_yielded, samples_yielded, finished, other) ==
    [sampler_iter_yielded |-> sampler_iter_yielded, num_yielded |-> num_yielded,
     samples_yielded |-> samples_yielded, iterator_finished |-> finished,
     other |-> other]

\* No checkpoint captured yet (dl_state_dict of a base loader without state_dict).
NoStateDict == StateDict(-1, -1, -1, FALSE, -1)

\* if counter > 0: counter -= amount
Lowered_m(counter, amount) == counter - amount
Lowered(counter, amount) == IF counter > 0 THEN counter - amount ELSE counter

\* adjust_state_dict_for_prefetch: distributed is
\* PartialState().distributed_type != DistributedType.NO.
adjust_state_dict_for_prefetch(sd, distributed) ==
    IF distributed
    THEN LET factor == num_processes - 1
         IN  [sd EXCEPT !.sampler_iter_yielded = Lowered(@, factor),
                        !.num_yielded = Lowered(@, factor),
                        !.samples_yielded = Lowered(@, batch_size * factor)]
    ELSE sd

\* _update_state_dict on a base loader that has state_dict: the snapshot of
\* its checkpoint base_state, adjusted, tagged with end_of_dataloader.
UpdateStateDict(base_state, distributed, end_of_dataloader) ==
    [adjust_state_dict_for_prefetch(base_state, distributed)
        EXCEPT !.iterator_finished = end_of_dataloader]

\* base_dataloader.state_dict() of a StatefulDataLoader whose iterator has
\* yielded `advances` batches and has, or has not, raised StopIteration:
\* its counters of yielded batches, no state of the index sampler, its own
\* finished flag; the rest of the checkpoint stands for the moment it was taken.
BaseCheckpoint(advances, exhausted) ==
    StateDict(advances, advances, -1, exhausted, <<advances, exhausted>>)

\* PartialState().distributed_type != DistributedType.NO
Distributed == num_processes > 1

\* =================================================== DataLoaderDispatcher
\* None for a batch and for a batch structure (real items are >= 0).
None == <<-1>>
NoStructure == -1

\* get_data_structure(batch): the shape along the first dimension.
get_data_structure(b) == IF b = None THEN NoStructure ELSE Len(b)

\* One value handed to broadcast_object_list / broadcast by process 0.
InfoMsg(info) == [kind |-> "info", structure |-> info[1], stop |-> info[2], batch |-> <<>>]
DataMsg(b) == [kind |-> "data", structure |-> Len(b), stop |-> FALSE, batch |-> b]

\* DataLoaderShard.total_batch_size: read from the batch sampler, with
\* getattr defaults False and 1 when it has no split_batches / num_processes
\* (has_num_processes: the batch sampler is a BatchSamplerShard).
ShardTotalBatchSize ==
    IF has_num_processes /\ split_batches THEN batch_size
    ELSE batch_size * (IF has_num_processes THEN num_processes ELSE 1)

\* DataLoaderDispatcher.total_batch_size: read from the dataset's batch_size
\* and num_processes attributes, chosen by the loader's own split_batches.
DispatcherTotalBatchSize ==
    IF split_batches THEN batch_size ELSE batch_size * num_processes

TotalBatchSize ==
    IF variant = "dispatcher" THEN DispatcherTotalBatchSize ELSE ShardTotalBatchSize

\* Reading total_batch_size raises: the batch_size attribute is missing (or
\* None), or the dispatcher's dataset has no num_processes to multiply by.
TotalBatchSizeRaises ==
    \/ ~has_batch_size
    \/ variant = "dispatcher" /\ ~split_batches /\ ~has_num_processes

\* The with suppress(Exception) block of begin(): the remainder it leaves
\* after reset().  SkipDataLoader has no _drop_last, len() of an unsized
\* dataset and a failing total_batch_size raise inside the block.
BeginRemainder_m ==
    IF drop_last THEN -1
    ELSE IF dataset_length = -1 \/ TotalBatchSizeRaises THEN -1
    ELSE dataset_length % (batch_size * num_processes)
BeginRemainder ==
    IF variant = "skip" THEN -1
    ELSE IF drop_last THEN -1
    ELSE IF dataset_length = -1 \/ TotalBatchSizeRaises THEN -1
    ELSE dataset_length % TotalBatchSize

\* gradient_state._add_dataloader(self) / _remove_dataloader(self): the
\* loader is entered into, and taken out of, the registry of active loaders.
AddDataloader(l) == [l EXCEPT !.registered = TRUE]
RemoveDataloader(l) == [l EXCEPT !.registered = FALSE]

\* DataLoaderStateMixin.begin() and end() on the attributes l of a loader;
\* begins and ends count the calls.
Begin_m(l) ==
    AddDataloader([l EXCEPT !.remainder = BeginRemainder,
                            !.begins = l.begins + 1])
Begin(l) ==
    AddDataloader([l EXCEPT !.end_of_dataloader = FALSE,
                            !.remainder = BeginRemainder,
                            !.begins = l.begins + 1])
End_m(l) == [l EXCEPT !.ends = l.ends + 1]
End(l) == RemoveDataloader([l EXCEPT !.ends = l.ends + 1])

\* set_epoch(epoch) of DataLoaderShard and DataLoaderDispatcher: iteration
\* becomes epoch, and epoch is handed to the sampler or the dataset (the
\* field epoch keeps the last value handed over, -1 before the first).
set_epoch(l, epoch) == [l EXCEPT !.iteration = epoch, !.epoch = epoch]

NewDispatcher ==
    [pc |-> "start", self_stop_iteration |-> FALSE, stop_iteration |-> FALSE,
     batch |-> None, batch_info |-> <<NoStructure, FALSE>>,
     next_batch |-> None, next_batch_info |-> <<NoStructure, FALSE>>,
     first_batch |-> None, observed_batch_size |-> 0, batch_index |-> 0,
     main_iterator |-> 0, recv |-> 0, out |-> <<>>, fetched |-> <<>>,
     seen |-> <<>>, rounds |-> 0, end_of_dataloader |-> FALSE, iteration |-> 0,
     registered |-> FALSE, remainder |-> -1, begins |-> 0, ends |-> 0,
     calls |-> <<>>, dl_state_dict |-> BaseCheckpoint(0, FALSE),
     epoch |-> -1, manual |-> 0]

\* How many batches process 0 gets from the iterator in one call of
\* _fetch_batches: one when splitting, otherwise up to num_processes.
GatherCount_m(avail) ==
    IF split_batches THEN Min(1, avail) ELSE Min(num_processes - 1, avail)
GatherCount(avail) ==
    IF split_batches \/ submesh_tp THEN Min(1, avail) ELSE Min(num_processes, avail)

\* The batches list of _fetch_batches after k batches came from the iterator
\* at position pos: with a tensor-parallel mesh the one batch is replicated,
\* batches = [batch] * num_processes.
Replicate_m(b) == [i \in 1 .. num_processes |-> PySlice(b, 0, Len(b) - 1)]
Replicate(b) == [i \in 1 .. num_processes |-> b]
Gathered(pos, k) ==
    IF submesh_tp /\ ~split_batches
    THEN IF k = 1 THEN Replicate(base_dataloader[pos + 1]) ELSE <<>>
    ELSE SubSeq(base_dataloader, pos + 1, pos + k)

\* _update_state_dict() precedes every next(iterator) of _fetch_batches: the
\* batches of this fetch the iterator had yielded at the last such call,
\* when k of them came before the end of the loop or StopIteration.
YieldedAtSnapshot(k) ==
    Min(k, (IF split_batches \/ submesh_tp THEN 1 ELSE num_processes) - 1)

\* The iterator gave every batch asked for (no StopIteration).
GatherComplete(k) == k = (IF split_batches \/ submesh_tp THEN 1 ELSE num_processes)

\* After a stop with drop_last=False and split_batches=False a remainder may be dispatched.
NeedsRemainder_m(stop) == FALSE
NeedsRemainder(stop) == stop /\ ~split_batches /\ ~drop_last

\* The calls of broadcast_object_list process p makes in one _fetch_batches:
\* the second one is outside the test on process_index.
FetchBroadcasts_m(p, stop) == IF p = 0 /\ NeedsRemainder(stop) THEN 2 ELSE 1
FetchBroadcasts(p, stop) == IF NeedsRemainder(stop) THEN 2 ELSE 1

\* The collective calls of one _fetch_batches, in program order.
FetchCalls(n) == IF n = 2 THEN <<"info", "info">> ELSE <<"info">>

\* The items of the base batch of another trailing shape.
OddItems ==
    IF ragged = 0 THEN {}
    ELSE {base_dataloader[ragged][i] : i \in 1 .. Len(base_dataloader[ragged])}

\* concatenate(..., dim=0) raises RuntimeError when the items put together
\* are not all of one trailing shape.
ConcatenateFails(b) ==
    \E i, j \in 1 .. Len(b) : b[i] \in OddItems /\ b[j] \notin OddItems

\* The second batch_info of process 0: the batches gathered before the stop, if any.
RemainderInfo_m(batches) ==
    IF Len(batches) > 1
    THEN <<get_data_structure(Flatten(batches)), FALSE>>
    ELSE <<NoStructure, TRUE>>
RemainderInfo(batches) ==
    IF Len(batches) > 0
    THEN <<get_data_structure(Flatten(batches)), FALSE>>
    ELSE <<NoStructure, TRUE>>

\* broadcast_object_list(batch_info): in place, every process then holds the
\* value of process 0 (entry k of the channel).
BroadcastObject_m(p, local, k) == local
BroadcastObject(p, local, k) ==
    IF p = 0 THEN local ELSE <<channel[k].structure, channel[k].stop>>

\* self._stop_iteration and next_batch_info[0] is None
EndsAfterFetch(d) == d.self_stop_iteration /\ d.next_batch_info[1] = NoStructure

\* The last batch is not complete: the first batch is added to it.
PadLast(stop, observed) ==
    ~drop_last /\ stop /\ observed % num_processes # 0

\* slice(process_index * batch_size, (process_index + 1) * batch_size)
DataSlice_m(b, p, bsz) == PySlice(b, p * bsz, (p + 1) * bsz - 1)
DataSlice(b, p, bsz) == PySlice(b, p * bsz, (p + 1) * bsz)

\* DataLoaderDispatcher.__len__
DispatcherLen ==
    LET whole_length == Len(base_dataloader)
    IN  IF split_batches THEN whole_length
        ELSE IF drop_last THEN whole_length \div num_processes
        ELSE CeilDiv(whole_length, num_processes)

\* __iter__ up to the first _fetch_batches: begin(), the iterator, the flags.
DispatcherBegin(p) ==
    LET d == disp[p]
    IN  /\ variant = "dispatcher"
        /\ d.pc = "start"
        /\ disp' = [disp EXCEPT ![p] =
              [set_epoch(Begin(d), d.iteration)
                       EXCEPT !.pc = "fetch", !.stop_iteration = FALSE,
                               !.self_stop_iteration = FALSE, !.first_batch = None]]
        /\ UNCHANGED <<config, streamVars, pureVars, shard, variant, base_dataloader, skip_batches,
                       channel, loader>>

\* _fetch_batches on process 0: gather, broadcast batch_info, and broadcast
\* the remainder's batch_info after a stop.  A RuntimeError of concatenate
\* leaves _fetch_batches, and the traversal, before the broadcast that
\* would have followed it.
FetchBatchesMain ==
    LET d == disp[0]
        k == GatherCount(Len(base_dataloader) - d.main_iterator)
        batches == Gathered(d.main_iterator, k)
        ok == GatherComplete(k)
        raised == ok /\ ~split_batches /\ ConcatenateFails(Flatten(batches))
        batch1 == IF ok THEN Flatten(batches) ELSE None
        info1 == IF ok THEN <<get_data_structure(batch1), FALSE>>
                 ELSE <<NoStructure, TRUE>>
        stop == BroadcastObject(0, info1, Len(channel) + 1)[2]
        rem == FetchBroadcasts(0, stop) = 2
        raised2 == rem /\ Len(batches) > 0 /\ ConcatenateFails(Flatten(batches))
        info2 == IF rem THEN RemainderInfo(batches) ELSE info1
        batch2 == IF rem /\ Len(batches) > 0 THEN Flatten(batches) ELSE batch1
        sd == UpdateStateDict(
                  BaseCheckpoint(d.main_iterator + YieldedAtSnapshot(k), FALSE),
                  Distributed, d.end_of_dataloader)
    IN  /\ variant = "dispatcher"
        /\ d.pc = "fetch"
        /\ channel' =
             IF raised THEN channel
             ELSE IF raised2 THEN Append(channel, InfoMsg(info1))
             ELSE channel \o <<InfoMsg(info1)>>
                  \o (IF rem THEN <<InfoMsg(info2)>> ELSE <<>>)
        /\ disp' = [disp EXCEPT ![0] =
              IF raised
              THEN [d EXCEPT !.pc = "error",
                             !.main_iterator = d.main_iterator + k,
                             !.dl_state_dict = sd]
              ELSE IF raised2
              THEN [d EXCEPT !.pc = "error",
                             !.main_iterator = d.main_iterator + k,
                             !.dl_state_dict = sd,
                             !.self_stop_iteration = stop,
                             !.seen = Append(d.seen, stop),
                             !.calls = Append(d.calls, "info")]
              ELSE [d EXCEPT !.pc = IF d.rounds = 0 THEN "loop" ELSE "slice",
                             !.main_iterator = d.main_iterator + k,
                             !.dl_state_dict = sd,
                             !.self_stop_iteration = stop,
                             !.next_batch = batch2,
                             !.next_batch_info = info2,
                             !.fetched = IF batch2 = None THEN d.fetched
                                         ELSE Append(d.fetched, batch2),
                             !.seen = Append(d.seen, stop),
                             !.calls = d.calls \o FetchCalls(IF rem THEN 2 ELSE 1)]]
        /\ UNCHANGED <<config, streamVars, pureVars, shard, variant, base_dataloader, skip_batches, loader>>

\* _fetch_batches on a process other than 0, up to the end of its first
\* broadcast_object_list: it receives batch_info and assigns _stop_iteration;
\* after a stop with a remainder to take care of it goes on to wait in the
\* second broadcast_object_list.  It never touches its iterator.
FetchBatchesOther(p) ==
    LET d == disp[p]
        local == <<NoStructure, d.self_stop_iteration>>
        info1 == BroadcastObject(p, local, d.recv + 1)
        stop == info1[2]
        rem == FetchBroadcasts(p, stop) = 2
    IN  /\ variant = "dispatcher"
        /\ p # 0
        /\ d.pc = "fetch"
        /\ Len(channel) >= d.recv + 1
        /\ channel[d.recv + 1].kind = "info"
        /\ disp' = [disp EXCEPT ![p] =
              [d EXCEPT !.pc = IF rem THEN "remainder"
                               ELSE IF d.rounds = 0 THEN "loop" ELSE "slice",
                        !.recv = d.recv + 1,
                        !.self_stop_iteration = stop,
                        !.next_batch = IF rem THEN d.next_batch ELSE None,
                        !.next_batch_info = IF rem THEN d.next_batch_info ELSE info1,
                        !.seen = Append(d.seen, stop),
                        !.calls = Append(d.calls, "info")]]
        /\ UNCHANGED <<config, streamVars, pureVars, shard, variant, base_dataloader, skip_batches,
                       channel, loader>>

\* The second broadcast_object_list of _fetch_batches on a process other
\* than 0: it receives the remainder's batch_info and returns.
FetchRemainderOther(p) ==
    LET d == disp[p]
        info2 == BroadcastObject(p, <<NoStructure, TRUE>>, d.recv + 1)
    IN  /\ variant = "dispatcher"
        /\ p # 0
        /\ d.pc = "remainder"
        /\ Len(channel) >= d.recv + 1
        /\ channel[d.recv + 1].kind = "info"
        /\ disp' = [disp EXCEPT ![p] =
              [d EXCEPT !.pc = IF d.rounds = 0 THEN "loop" ELSE "slice",
                        !.recv = d.recv + 1,
                        !.next_batch = None,
                        !.next_batch_info = info2,
                        !.calls = Append(d.calls, "info")]]
        /\ UNCHANGED <<config, streamVars, pureVars, shard, variant, base_dataloader, skip_batches,
                       channel, loader>>

\* The while test fails: iteration += 1, end(), the generator returns.
DispatcherFinish(p) ==
    LET d == disp[p]
    IN  /\ variant = "dispatcher"
        /\ d.pc = "loop"
        /\ d.stop_iteration
        /\ disp' = [disp EXCEPT ![p] =
              [End(d) EXCEPT !.pc = "done", !.iteration = d.iteration + 1]]
        /\ UNCHANGED <<config, streamVars, pureVars, shard, variant, base_dataloader, skip_batches,
                       channel, loader>>

\* The head of the loop body with nothing to dispatch: the batch is None on
\* every process and the traversal raises.
DispatcherRaise(p) ==
    LET d == disp[p]
    IN  /\ variant = "dispatcher"
        /\ d.pc = "loop"
        /\ ~d.stop_iteration
        /\ d.next_batch_info[1] = NoStructure
        /\ disp' = [disp EXCEPT ![p] =
              [d EXCEPT !.pc = "error", !.rounds = d.rounds + 1,
                        !.batch = None, !.batch_info = d.next_batch_info]]
        /\ UNCHANGED <<config, streamVars, pureVars, shard, variant, base_dataloader, skip_batches,
                       channel, loader>>

\* The head of the loop body: the batch is broadcast from process 0, the first
\* batch is kept, the sizes are computed and the stop flag is read.
DispatchBatch(p) ==
    LET d == disp[p]
        b == IF p = 0 THEN d.next_batch ELSE channel[d.recv + 1].batch
        stop == d.self_stop_iteration
    IN  /\ variant = "dispatcher"
        /\ d.pc = "loop"
        /\ ~d.stop_iteration
        /\ d.next_batch_info[1] # NoStructure
        /\ p # 0 => /\ Len(channel) >= d.recv + 1
                    /\ channel[d.recv + 1].kind = "data"
        /\ channel' = IF p = 0 THEN Append(channel, DataMsg(b)) ELSE channel
        /\ disp' = [disp EXCEPT ![p] =
              [d EXCEPT !.pc = IF stop THEN "slice" ELSE "fetch",
                        !.rounds = d.rounds + 1,
                        !.recv = IF p = 0 THEN d.recv ELSE d.recv + 1,
                        !.batch = b,
                        !.batch_info = d.next_batch_info,
                        !.first_batch = IF ~drop_last /\ d.first_batch = None
                                        THEN PySlice(b, 0, num_processes)
                                        ELSE d.first_batch,
                        !.observed_batch_size = Len(b),
                        !.stop_iteration = stop,
                        !.calls = Append(d.calls, "data")]]
        /\ UNCHANGED <<config, streamVars, pureVars, shard, variant, base_dataloader, skip_batches, loader>>

\* The rest of the loop body: the end test after the look-ahead fetch, the
\* padding of the last batch (its concatenate can raise), the slice of this
\* process, the yield.
SliceAndYield(p) ==
    LET d == disp[p]
        stop == d.stop_iteration \/ EndsAfterFetch(d)
        observed == d.observed_batch_size
        pad == PadLast(stop, observed)
        raised == pad /\ ConcatenateFails(d.batch \o d.first_batch)
        b == IF pad THEN d.batch \o d.first_batch ELSE d.batch
        bsz == (observed \div num_processes) + (IF pad THEN 1 ELSE 0)
        piece == DataSlice(b, p, bsz)
        \* if stop_iteration: end_of_dataloader = True; _update_state_dict().
        \* The iterator of process 0 has raised StopIteration by then; the
        \* iterators of the other processes have not been advanced.
        sd == IF stop
              THEN UpdateStateDict(BaseCheckpoint(d.main_iterator, p = 0),
                                   Distributed, TRUE)
              ELSE d.dl_state_dict
    IN  /\ variant = "dispatcher"
        /\ d.pc = "slice"
        /\ disp' = [disp EXCEPT ![p] =
              IF raised
              THEN [d EXCEPT !.pc = "error", !.stop_iteration = stop]
              ELSE [d EXCEPT !.pc = "loop",
                             !.stop_iteration = stop,
                             !.batch = piece,
                             !.end_of_dataloader = stop,
                             !.dl_state_dict = sd,
                             !.remainder = IF stop THEN observed ELSE d.remainder,
                             !.out = IF d.batch_index >= skip_batches
                                     THEN Append(d.out, [round |-> d.batch_index,
                                                         data |-> piece,
                                                         last |-> stop,
                                                         dl |-> sd])
                                     ELSE d.out,
                             !.batch_index = d.batch_index + 1]]
        /\ UNCHANGED <<config, streamVars, pureVars, shard, variant, base_dataloader, skip_batches,
                       channel, loader>>

NextDispatcher ==
    \/ FetchBatchesMain
    \/ \E p \in Procs : DispatcherBegin(p)
    \/ \E p \in Procs : FetchBatchesOther(p)
    \/ \E p \in Procs : FetchRemainderOther(p)
    \/ \E p \in Procs : DispatcherFinish(p)
    \/ \E p \in Procs : DispatcherRaise(p)
    \/ \E p \in Procs : DispatchBatch(p)
    \/ \E p \in Procs : SliceAndYield(p)

\* ========================================== DataLoaderShard, SkipDataLoader
NewLoader ==
    [pc |-> "start", current_batch |-> None, batch_index |-> 0, position |-> 0,
     out |-> <<>>, end_of_dataloader |-> FALSE, iteration |-> 0,
     registered |-> FALSE, remainder |-> -1, begins |-> 0, ends |-> 0,
     flags |-> <<>>, dl_state_dict |-> BaseCheckpoint(0, FALSE), states |-> <<>>,
     epoch |-> -1, manual |-> 0]

\* if batch_index >= self.skip_batches: yield current_batch
YieldsBatch_m(batch_index) == batch_index > skip_batches
YieldsBatch(batch_index) == batch_index >= skip_batches

\* The look-ahead of DataLoaderShard.__iter__: _update_state_dict() is called
\* before next(dataloader_iter), when the iterator has made `position` advances.
AdvancesAtSnapshot_m(position) == position + 1
AdvancesAtSnapshot(position) == position

\* DataLoaderShard.__iter__ up to the loop: begin(), then the first batch is
\* read ahead; an empty base loader ends the traversal at once.
ShardBegin ==
    /\ variant = "shard"
    /\ loader.pc = "start"
    /\ loader' =
         IF Len(base_dataloader) = 0
         THEN [End(set_epoch(Begin(loader), loader.iteration)) EXCEPT !.pc = "done"]
         ELSE [set_epoch(Begin(loader), loader.iteration) EXCEPT !.pc = "loop",
                             !.current_batch = base_dataloader[1],
                             !.position = 1, !.batch_index = 0]
    /\ UNCHANGED <<config, streamVars, pureVars, shard, variant, base_dataloader, skip_batches, disp, channel>>

\* One turn of the while loop of DataLoaderShard.__iter__: the next batch is
\* read before the current one is yielded; StopIteration marks the last batch
\* and ends the traversal.
ShardStep ==
    LET l == loader
        more == l.position < Len(base_dataloader)
        out2 == IF YieldsBatch(l.batch_index)
                THEN Append(l.out, l.current_batch) ELSE l.out
        \* end_of_dataloader as the consumer reads it at each yield
        flags2 == IF YieldsBatch(l.batch_index)
                  THEN Append(l.flags, IF more THEN l.end_of_dataloader ELSE TRUE)
                  ELSE l.flags
        \* _update_state_dict before next(), and again after StopIteration
        sd == IF more
              THEN UpdateStateDict(BaseCheckpoint(AdvancesAtSnapshot(l.position), FALSE),
                                   Distributed, l.end_of_dataloader)
              ELSE UpdateStateDict(BaseCheckpoint(l.position, TRUE), Distributed, TRUE)
        \* state_dict() at each yield, and the next() calls made by then
        states2 == IF YieldsBatch(l.batch_index)
                   THEN Append(l.states, [dl |-> sd, advanced |-> l.position + 1])
                   ELSE l.states
    IN  /\ variant = "shard"
        /\ l.pc = "loop"
        /\ loader' =
             IF more
             THEN [l EXCEPT !.out = out2, !.flags = flags2,
                            !.dl_state_dict = sd, !.states = states2,
                            !.batch_index = l.batch_index + 1,
                            !.current_batch = base_dataloader[l.position + 1],
                            !.position = l.position + 1]
             ELSE IF YieldsBatch(l.batch_index)
             THEN [l EXCEPT !.pc = "last", !.out = out2, !.flags = flags2,
                            !.dl_state_dict = sd, !.states = states2,
                            !.end_of_dataloader = TRUE]
             ELSE [End(l) EXCEPT !.pc = "done",
                                 !.dl_state_dict = sd,
                                 !.end_of_dataloader = TRUE,
                                 !.iteration = l.iteration + 1]
        /\ UNCHANGED <<config, streamVars, pureVars, shard, variant, base_dataloader, skip_batches, disp, channel>>

\* The consumer asks for more after the last batch: break, iteration += 1,
\* end(), the generator returns.
ShardFinish ==
    /\ variant = "shard"
    /\ loader.pc = "last"
    /\ loader' = [End(loader) EXCEPT !.pc = "done",
                                     !.iteration = loader.iteration + 1]
    /\ UNCHANGED <<config, streamVars, pureVars, shard, variant, base_dataloader, skip_batches, disp, channel>>

\* SkipDataLoader.__iter__: begin().
SkipBegin ==
    /\ variant = "skip"
    /\ loader.pc = "start"
    /\ loader' = [Begin(loader) EXCEPT !.pc = "loop"]
    /\ UNCHANGED <<config, streamVars, pureVars, shard, variant, base_dataloader, skip_batches, disp, channel>>

\* One turn of the for loop of SkipDataLoader.__iter__.
SkipStep ==
    LET l == loader
        b == base_dataloader[l.position + 1]
        sd == UpdateStateDict(BaseCheckpoint(l.position + 1, FALSE), Distributed,
                              l.end_of_dataloader)
    IN  /\ variant = "skip"
        /\ l.pc = "loop"
        /\ l.position < Len(base_dataloader)
        /\ loader' =
             IF YieldsBatch(l.batch_index)
             THEN [l EXCEPT !.position = l.position + 1,
                            !.batch_index = l.batch_index + 1,
                            !.current_batch = b,
                            !.out = Append(l.out, b),
                            !.flags = Append(l.flags, l.end_of_dataloader),
                            !.dl_state_dict = sd,
                            !.states = Append(l.states, [dl |-> sd,
                                                         advanced |-> l.position + 1])]
             ELSE [l EXCEPT !.position = l.position + 1,
                            !.batch_index = l.batch_index + 1,
                            !.current_batch = b]
        /\ UNCHANGED <<config, streamVars, pureVars, shard, variant, base_dataloader, skip_batches, disp, channel>>

\* The base loader is exhausted: the for loop ends, end().
SkipEnd ==
    /\ variant = "skip"
    /\ loader.pc = "loop"
    /\ loader.position = Len(base_dataloader)
    /\ loader' = [End(loader) EXCEPT !.pc = "done"]
    /\ UNCHANGED <<config, streamVars, pureVars, shard, variant, base_dataloader, skip_batches, disp, channel>>

\* SkipBatchSampler.__iter__: if index >= self.skip_batches.
SamplerYields_m(index) == index > skip_batches
SamplerYields(index) == index >= skip_batches

\* One turn of the for loop of SkipBatchSampler.__iter__ over the wrapped
\* batch sampler (its batches are base_dataloader).
SkipSamplerStep ==
    LET l == loader
        samples == base_dataloader[l.position + 1]
    IN  /\ variant = "skip_sampler"
        /\ l.pc \in {"start", "loop"}
        /\ l.position < Len(base_dataloader)
        /\ loader' = [l EXCEPT !.pc = "loop",
                               !.position = l.position + 1,
                               !.batch_index = l.batch_index + 1,
                               !.current_batch = samples,
                               !.out = IF SamplerYields(l.batch_index)
                                       THEN Append(l.out, samples) ELSE l.out]
        /\ UNCHANGED <<config, streamVars, pureVars, shard, variant, base_dataloader, skip_batches, disp, channel>>

\* The wrapped batch sampler is exhausted: the generator ends.
SkipSamplerEnd ==
    /\ variant = "skip_sampler"
    /\ loader.pc \in {"start", "loop"}
    /\ loader.position = Len(base_dataloader)
    /\ loader' = [loader EXCEPT !.pc = "done"]
    /\ UNCHANGED <<config, streamVars, pureVars, shard, variant, base_dataloader, skip_batches, disp, channel>>

NextShardLoader == ShardBegin \/ ShardStep \/ ShardFinish
NextSkipSampler == SkipSamplerStep \/ SkipSamplerEnd
NextSkipLoader == SkipBegin \/ SkipStep \/ SkipEnd

\* The base loader: a DataLoader over n items with batch size batch_size,
\* keeping or dropping its short last batch.
InitLoaders ==
    /\ variant \in {"dispatcher", "shard", "skip", "skip_sampler"}
    /\ num_processes \in 1 .. MaxWorld
    /\ batch_size \in 1 .. MaxBatchSize
    /\ drop_last \in BOOLEAN
    /\ split_batches \in BOOLEAN
    /\ skip_batches \in 0 .. MaxSkip
    /\ \E n \in 0 .. MaxLoaderItems : \E dl \in BOOLEAN :
           /\ base_dataloader = SourceBatches(n, batch_size, dl)
           /\ dataset_length = n
    /\ disp = [p \in Procs |-> NewDispatcher]
    /\ channel = <<>>
    /\ loader = NewLoader
    /\ even_batches = TRUE
    /\ batch_sampler = <<>>
    /\ has_batch_size = TRUE
    /\ has_num_processes = TRUE
    /\ shard = <<>>
    /\ iterable_dataset = <<>>
    /\ iterable_shard = <<>>
    /\ adapter = <<>>
    /\ topology = <<>>
    /\ ragged = 0
    /\ submesh_tp = FALSE

NextLoaders == NextDispatcher \/ NextShardLoader \/ NextSkipLoader \/ NextSkipSampler

SpecLoaders == InitLoaders /\ [][NextLoaders]_vars

\* ------------------------------------------------- repeated traversals
\* The consumer iterates over the loader again: a new __iter__ generator
\* with fresh locals over a fresh iterator of the base loader; the
\* attributes of the loader object stay as the last traversal left them.
RestartLoader ==
    /\ variant \in {"shard", "skip"}
    /\ loader.pc = "done"
    /\ loader.begins < MaxTraversals
    /\ loader' = [loader EXCEPT !.pc = "start", !.current_batch = None,
                                !.batch_index = 0, !.position = 0, !.out = <<>>,
                                !.flags = <<>>, !.states = <<>>]
    /\ UNCHANGED <<config, streamVars, pureVars, shard, variant, base_dataloader, skip_batches, disp, channel>>

RestartDispatcher(p) ==
    LET d == disp[p]
    IN  /\ variant = "dispatcher"
        /\ d.pc = "done"
        /\ d.begins < MaxTraversals
        /\ disp' = [disp EXCEPT ![p] =
              [NewDispatcher EXCEPT !.recv = d.recv,
                                    !.end_of_dataloader = d.end_of_dataloader,
                                    !.dl_state_dict = d.dl_state_dict,
                                    !.remainder = d.remainder,
                                    !.iteration = d.iteration,
                                    !.self_stop_iteration = d.self_stop_iteration,
                                    !.epoch = d.epoch,
                                    !.manual = d.manual,
                                    !.registered = d.registered,
                                    !.begins = d.begins,
                                    !.ends = d.ends]]
        /\ UNCHANGED <<config, streamVars, pureVars, shard, variant, base_dataloader, skip_batches,
                       channel, loader>>

\* A loader over a dataset that is sized or not, traversed up to
\* MaxTraversals times.  total_batch_size reads the batch sampler of a
\* DataLoaderShard (a BatchSamplerShard with split_batches and num_processes,
\* or a plain BatchSampler without them) and the dataset of a
\* DataLoaderDispatcher (with or without batch_size and num_processes); at
\* most one of the three values begin() reads is missing at a time, and only
\* where begin() reads them.
InitSession ==
    /\ variant \in {"dispatcher", "shard", "skip"}
    /\ num_processes \in 1 .. MaxWorld
    /\ batch_size \in 1 .. MaxSessionBatch
    /\ drop_last \in BOOLEAN
    /\ split_batches \in BOOLEAN
    /\ skip_batches = 0
    /\ has_batch_size \in BOOLEAN
    /\ has_num_processes \in BOOLEAN
    /\ \E n \in 0 .. MaxSessionItems :
           /\ base_dataloader = SourceBatches(n, batch_size, drop_last)
           /\ dataset_length \in {-1, n}
           /\ has_batch_size \/ dataset_length # -1
           /\ has_num_processes \/ (has_batch_size /\ dataset_length # -1)
           \* begin() reads none of them under drop_last or in a SkipDataLoader
           /\ (drop_last \/ variant = "skip") =>
                  (has_batch_size /\ has_num_processes /\ dataset_length # -1)
    /\ disp = [p \in Procs |-> NewDispatcher]
    /\ channel = <<>>
    /\ loader = NewLoader
    /\ even_batches = TRUE
    /\ batch_sampler = <<>>
    /\ shard = <<>>
    /\ iterable_dataset = <<>>
    /\ iterable_shard = <<>>
    /\ adapter = <<>>
    /\ topology = <<>>
    /\ ragged = 0
    /\ submesh_tp = FALSE

NextSession ==
    \/ NextDispatcher
    \/ NextShardLoader
    \/ NextSkipLoader
    \/ RestartLoader
    \/ \E p \in Procs : RestartDispatcher(p)

SpecSession == InitSession /\ [][NextSession]_vars

\* ------------------------------------------------------------ claim helpers
Dispatching == variant = "dispatcher"
Finished(p) == disp[p].pc \in {"done", "error"}
AllFinished == \A p \in Procs : Finished(p)
AllReturned == \A p \in Procs : disp[p].pc = "done"
BaseLen == Len(base_dataloader)

\* Every process has handed round k (0-based) to its consumer.
YieldedByAll(k) ==
    /\ k >= skip_batches
    /\ \A p \in Procs : Len(disp[p].out) >= k - skip_batches + 1

YieldOf(p, k) == disp[p].out[k - skip_batches + 1]

\* The slices of round k, concatenated in process order.
RoundSlices(k) == Flatten([q \in 1 .. num_processes |-> YieldOf(q - 1, k).data])

\* The first fetch finds no round to dispatch.
NothingToDispatch ==
    \/ BaseLen = 0
    \/ ~split_batches /\ drop_last /\ BaseLen < num_processes

\* ------------------------------------------------------------------ claims
\* C7: all processes observe the same stop flags, fetch after fetch and round
\* after round; no process ends its traversal in a round in which another one
\* continues, and all yield the same number of batches.
C7_SameStopFlag ==
    Dispatching =>
        \A p, q \in Procs :
            /\ \A k \in 1 .. Min(Len(disp[p].seen), Len(disp[q].seen)) :
                   disp[p].seen[k] = disp[q].seen[k]
            /\ \A k \in 1 .. Min(Len(disp[p].out), Len(disp[q].out)) :
                   /\ disp[p].out[k].round = disp[q].out[k].round
                   /\ disp[p].out[k].last = disp[q].out[k].last
            /\ Finished(p) => disp[q].rounds <= disp[p].rounds
            /\ (Finished(p) /\ Finished(q)) =>
                   /\ disp[p].pc = disp[q].pc
                   /\ Len(disp[p].out) = Len(disp[q].out)

\* Two processes have ended after a remainder round that followed a full round.
C7_Witness ==
    /\ Dispatching /\ num_processes = 2 /\ ~split_batches /\ ~drop_last
    /\ BaseLen = 3 /\ skip_batches = 0 /\ AllReturned
    /\ \A p \in Procs : Len(disp[p].out) = 2 /\ disp[p].seen = <<FALSE, TRUE>>

\* C8 as stated: the slices of every round, concatenated in process order,
\* are exactly the combined batch process 0 fetched for that round.
C8_Original ==
    Dispatching =>
        \A k \in 0 .. MaxLoaderItems :
            YieldedByAll(k) => RoundSlices(k) = disp[0].fetched[k + 1]

\* C8 amended: the concatenated slices are the combined batch when its size S
\* is divisible by P; in the last round with drop_last=false and S not
\* divisible they are the combined batch followed by the leading items of the
\* first combined batch, cut at P*(floor(S/P)+1) items; otherwise they are the
\* first P*floor(S/P) items of the combined batch.
C8_SlicesOfRound ==
    Dispatching =>
        \A k \in 0 .. MaxLoaderItems :
            YieldedByAll(k) =>
                LET whole == disp[0].fetched[k + 1]
                    S == Len(whole)
                    c == S \div num_processes
                    pool == PySlice(disp[0].fetched[1], 0, num_processes)
                IN  IF S % num_processes = 0
                    THEN RoundSlices(k) = whole
                    ELSE IF ~drop_last /\ YieldOf(0, k).last
                    THEN /\ RoundSlices(k) =
                                PySlice(whole \o pool, 0, num_processes * (c + 1))
                         /\ SubSeq(RoundSlices(k), 1, S) = whole
                    ELSE RoundSlices(k) = PySlice(whole, 0, num_processes * c)

\* A last round of 3 items on two processes, completed with the first item.
C8_Witness ==
    /\ Dispatching /\ num_processes = 2 /\ ~drop_last /\ skip_batches = 0
    /\ YieldedByAll(1)
    /\ disp[0].fetched[2] = <<3, 4, 5>>
    /\ RoundSlices(1) = <<3, 4, 5, 0>>

\* C9: for every loader variant and every base-loader length, exhaustion
\* ends the traversal normally: no process raises an error to its consumer.
C9_NoErrorOnExhaustion ==
    /\ loader.pc # "error"
    /\ \A p \in Procs : disp[p].pc # "error"

\* C10: with skip_batches=0, a process that has ended its traversal has
\* yielded len(dispatcher) batches: N when splitting, floor(N/P) with
\* drop_last, ceil(N/P) otherwise.
C10_YieldsLen ==
    (Dispatching /\ skip_batches = 0) =>
        \A p \in Procs :
            /\ Len(disp[p].out) <= DispatcherLen
            /\ Finished(p) =>
                   /\ Len(disp[p].out) = DispatcherLen
                   /\ Len(disp[p].out) =
                          IF split_batches THEN BaseLen
                          ELSE IF drop_last THEN BaseLen \div num_processes
                          ELSE CeilDiv(BaseLen, num_processes)

\* Five base batches on two processes without drop_last: three rounds each.
C10_Witness ==
    /\ Dispatching /\ skip_batches = 0 /\ num_processes = 2
    /\ ~split_batches /\ ~drop_last /\ BaseLen = 5 /\ AllReturned
    /\ \A p \in Procs : Len(disp[p].out) = 3

\* ---------------------------------------------------- IterableDatasetShard
\* IterableDatasetShard.__init__: the configuration check.
IterableConstructorRejects(split, bs, P) == split /\ bs > 1 /\ bs % P # 0

\* prepare_data_loader: the sanity check on batch_size_for_check.
PrepareRejects(split, bs, P) == split /\ bs > 1 /\ bs % P # 0

\* The number of elements of one batch over all processes.
real_batch_size ==
    IF split_batches THEN batch_size ELSE batch_size * num_processes

\* The number of elements of it that one process gets.
process_batch_size ==
    IF split_batches THEN batch_size \div num_processes ELSE batch_size

\* for i in process_slice: yield current_batch[i]
ProcessWindow_m(current_batch, p) ==
    [k \in 1 .. process_batch_size |-> current_batch[k]]
ProcessWindow_overlap(current_batch, p) ==
    [k \in 1 .. process_batch_size |->
        current_batch[((p * process_batch_size + k - 1 + p) % real_batch_size) + 1]]
ProcessWindow(current_batch, p) ==
    [k \in 1 .. process_batch_size |-> current_batch[p * process_batch_size + k]]

\* while len(current_batch) < real_batch_size: current_batch += first_batch
RECURSIVE PadWithFirst_m(_, _)
RECURSIVE PadWithFirst(_, _)
PadWithFirst_m(current_batch, first_batch) ==
    IF Len(current_batch) < real_batch_size
    THEN PadWithFirst_m(first_batch \o current_batch, first_batch)
    ELSE current_batch
PadWithFirst(current_batch, first_batch) ==
    IF Len(current_batch) < real_batch_size
    THEN PadWithFirst(current_batch \o first_batch, first_batch)
    ELSE current_batch

\* The elements the dataset has left when the generator has consumed pos of them.
Remaining(pos) == SubSeq(iterable_dataset, pos + 1, Len(iterable_dataset))

\* What __iter__ yields after the for loop; first_batch is <<>> while it is None.
StreamTail_m(s, p) ==
    LET current_batch == Remaining(s.pos)
        first_batch == IF s.first_batch = <<>> THEN current_batch ELSE s.first_batch
    IN  IF Len(current_batch) > 0
        THEN ProcessWindow(PadWithFirst(current_batch, first_batch), p)
        ELSE <<>>
StreamTail(s, p) ==
    LET current_batch == Remaining(s.pos)
        first_batch == IF s.first_batch = <<>> THEN current_batch ELSE s.first_batch
    IN  IF ~drop_last /\ Len(current_batch) > 0
        THEN ProcessWindow(PadWithFirst(current_batch, first_batch), p)
        ELSE <<>>

NewIterableShard ==
    [pc |-> "new", pos |-> 0, first_batch |-> <<>>, out |-> <<>>, pending |-> <<>>]

\* prepare_data_loader on a loader over an IterableDataset, the whole call.
\* dispatch_batches is "None", "True" or "False" as passed; megatron is
\* distributed_type == DistributedType.MEGATRON_LM.  The outcome is a
\* ValueError, an IterableDatasetShard to iterate, or the dataset left
\* unwrapped (one process, or a DataLoaderDispatcher).  The loader built at
\* the end gets batch_size // num_processes when splitting without
\* dispatching, and DataLoader refuses a batch size of 0 with a ValueError.
PrepareOutcome(put_on_device, dispatch_batches, megatron) ==
    LET dispatch == IF dispatch_batches = "None" THEN put_on_device
                    ELSE dispatch_batches = "True"
        loader_batch_size == IF split_batches /\ ~dispatch
                             THEN batch_size \div num_processes ELSE batch_size
    IN  IF dispatch /\ ~put_on_device THEN "config_error"
        ELSE IF split_batches /\ ~has_batch_size THEN "config_error"
        ELSE IF PrepareRejects(split_batches, batch_size, num_processes)
        THEN "config_error"
        ELSE IF loader_batch_size = 0 THEN "config_error"
        ELSE IF (num_processes # 1 \/ megatron) /\ ~dispatch THEN "new"
        ELSE "unwrapped"

\* The outcomes over every put_on_device, dispatch_batches and distributed_type.
PrepareOutcomes ==
    {PrepareOutcome(put_on_device, dispatch_batches, megatron) :
        put_on_device \in BOOLEAN, dispatch_batches \in {"None", "True", "False"},
        megatron \in BOOLEAN}

PrepareDataLoader(p) ==
    /\ iterable_shard[p].pc = "prepare"
    /\ \E outcome \in PrepareOutcomes :
           iterable_shard' = [iterable_shard EXCEPT ![p].pc = outcome]
    /\ UNCHANGED <<config, pureVars, loaderVars, shard, iterable_dataset>>

\* IterableDatasetShard(...) then iter(): the constructor check, the generator starts.
IterableConstruct(p) ==
    /\ iterable_shard[p].pc = "new"
    /\ iterable_shard' = [iterable_shard EXCEPT ![p].pc =
            IF IterableConstructorRejects(split_batches, batch_size, num_processes)
            THEN "config_error" ELSE "iter"]
    /\ UNCHANGED <<config, pureVars, loaderVars, shard, iterable_dataset>>

\* first_batch once the statements after the yields of a filled batch have
\* run: the first filled batch is kept.
FirstBatchKept(s) ==
    IF s.first_batch = <<>> /\ s.pos >= real_batch_size
    THEN SubSeq(iterable_dataset, s.pos - real_batch_size + 1, s.pos)
    ELSE s.first_batch

\* One next() that ends at the first yield of a filled batch: the statements
\* after the yields of the batch before, the turns of the for loop that fill
\* one real batch, the yield of the first element of this process's window
\* (pending keeps the elements of the window still to yield).
IterableFillBatch(p) ==
    LET s == iterable_shard[p]
        current_batch == SubSeq(iterable_dataset, s.pos + 1, s.pos + real_batch_size)
        window == ProcessWindow(current_batch, p)
    IN  /\ s.pc = "iter"
        /\ s.pending = <<>>
        /\ process_batch_size > 0
        /\ Len(iterable_dataset) - s.pos >= real_batch_size
        /\ iterable_shard' = [iterable_shard EXCEPT ![p] =
              [s EXCEPT !.pos = s.pos + real_batch_size,
                        !.first_batch = FirstBatchKept(s),
                        !.out = Append(s.out, Head(window)),
                        !.pending = Tail(window)]]
        /\ UNCHANGED <<config, pureVars, loaderVars, shard, iterable_dataset>>

\* One next() inside a window: the next element of it is yielded.
IterableYield(p) ==
    LET s == iterable_shard[p]
    IN  /\ s.pc \in {"iter", "tail"}
        /\ s.pending # <<>>
        /\ iterable_shard' = [iterable_shard EXCEPT ![p] =
              [s EXCEPT !.out = Append(s.out, Head(s.pending)),
                        !.pending = Tail(s.pending)]]
        /\ UNCHANGED <<config, pureVars, loaderVars, shard, iterable_dataset>>

\* One next() that reaches no further yield of a filled batch: the dataset
\* ends before the next real batch is full, or this process's window is
\* empty and the for loop runs through every batch without a yield.  The
\* step runs the rest of the for loop and the code after it up to the yield
\* of the first element of the completed batch, or to the end of the
\* generator when nothing is left to yield.
IterableExhausted(p) ==
    LET s == iterable_shard[p]
        left == Len(iterable_dataset) - s.pos
        filled == IF process_batch_size = 0 THEN left \div real_batch_size ELSE 0
        kept == IF FirstBatchKept(s) = <<>> /\ filled > 0
                THEN SubSeq(iterable_dataset, s.pos + 1, s.pos + real_batch_size)
                ELSE FirstBatchKept(s)
        atEnd == [s EXCEPT !.pos = s.pos + filled * real_batch_size,
                           !.first_batch = kept]
        tail == StreamTail(atEnd, p)
        completes == ~drop_last /\ Len(Remaining(atEnd.pos)) > 0
    IN  /\ s.pc = "iter"
        /\ s.pending = <<>>
        /\ process_batch_size = 0 \/ left < real_batch_size
        /\ iterable_shard' = [iterable_shard EXCEPT ![p] =
              [s EXCEPT !.pc = IF tail = <<>> THEN "done" ELSE "tail",
                        !.pos = Len(iterable_dataset),
                        !.first_batch = IF completes /\ kept = <<>>
                                        THEN Remaining(atEnd.pos) ELSE kept,
                        !.out = IF tail = <<>> THEN s.out ELSE Append(s.out, Head(tail)),
                        !.pending = IF tail = <<>> THEN <<>> ELSE Tail(tail)]]
        /\ UNCHANGED <<config, pureVars, loaderVars, shard, iterable_dataset>>

\* The next() after the last element of the completed batch: the generator ends.
IterableFinish(p) ==
    LET s == iterable_shard[p]
    IN  /\ s.pc = "tail"
        /\ s.pending = <<>>
        /\ iterable_shard' = [iterable_shard EXCEPT ![p].pc = "done"]
        /\ UNCHANGED <<config, pureVars, loaderVars, shard, iterable_dataset>>

\* The dataset is a stream of L distinct elements; the shard is built
\* directly or by prepare_data_loader.
InitStream ==
    /\ num_processes \in 1 .. MaxStreamProcesses
    /\ batch_size \in 1 .. MaxBatchSize
    /\ drop_last \in BOOLEAN
    /\ split_batches \in BOOLEAN
    /\ \E L \in 0 .. MaxItems : iterable_dataset = [i \in 1 .. L |-> i - 1]
    /\ has_batch_size \in BOOLEAN
    /\ has_num_processes = TRUE
    /\ \E entry \in {"new", "prepare"} :
           /\ iterable_shard = [p \in Procs |-> [NewIterableShard EXCEPT !.pc = entry]]
           \* the batch size is missing only where its absence is checked
           /\ ~has_batch_size => (entry = "prepare" /\ split_batches)
    /\ even_batches = TRUE
    /\ batch_sampler = <<>>
    /\ dataset_length = 0
    /\ shard = <<>>
    /\ variant = "stream"
    /\ base_dataloader = <<>>
    /\ skip_batches = 0
    /\ disp = <<>>
    /\ channel = <<>>
    /\ loader = <<>>
    /\ adapter = <<>>
    /\ topology = <<>>
    /\ ragged = 0
    /\ submesh_tp = FALSE

NextStream ==
    \/ \E p \in Procs : PrepareDataLoader(p)
    \/ \E p \in Procs : IterableConstruct(p)
    \/ \E p \in Procs : IterableFillBatch(p)
    \/ \E p \in Procs : IterableYield(p)
    \/ \E p \in Procs : IterableExhausted(p)
    \/ \E p \in Procs : IterableFinish(p)

SpecStream == InitStream /\ [][NextStream]_vars

\* IterableDatasetShard.__len__ (the dataset is sized).
IterableShardLen ==
    IF drop_last
    THEN (Len(iterable_dataset) \div (batch_size * num_processes)) * batch_size
    ELSE CeilDiv(Len(iterable_dataset), batch_size * num_processes) * batch_size

\* ------------------------------------------------------------ claim helpers
StreamDone == \A p \in Procs : iterable_shard[p].pc = "done"
StreamLen == Len(iterable_dataset)
StreamOut(p) == iterable_shard[p].out

RECURSIVE SumOut(_)
SumOut(P) == IF P = 0 THEN 0 ELSE Len(StreamOut(P - 1)) + SumOut(P - 1)

\* The stream [0..7] sharded in split mode over two processes.
SplitExample(bs) ==
    /\ num_processes = 2 /\ batch_size = bs /\ split_batches
    /\ iterable_dataset = <<0, 1, 2, 3, 4, 5, 6, 7>>
    /\ StreamDone

\* C11 as stated: over the stream [0..7] with two processes, batch_size 1 and
\* split_batches, process 0 yields [0,1,4,5] and process 1 yields [2,3,6,7].
C11_Original ==
    SplitExample(1) =>
        StreamOut(0) = <<0, 1, 4, 5>> /\ StreamOut(1) = <<2, 3, 6, 7>>

\* C11 amended: over the stream [0..7] with two processes, batch_size 4 and
\* split_batches, process 0 yields [0,1,4,5] and process 1 yields [2,3,6,7].
C11_SplitExample ==
    SplitExample(4) =>
        StreamOut(0) = <<0, 1, 4, 5>> /\ StreamOut(1) = <<2, 3, 6, 7>>

C11_Witness ==
    SplitExample(4) /\ StreamOut(0) = <<0, 1, 4, 5>> /\ StreamOut(1) = <<2, 3, 6, 7>>

\* C12 as stated: with drop_last the elements yielded, summed over the P
\* processes, number P * floor(L / P).
C12_Original ==
    (drop_last /\ StreamDone) =>
        SumOut(num_processes) = num_processes * (StreamLen \div num_processes)

\* C12 amended: with drop_last the elements yielded, summed over the P
\* processes, are those of the filled real batches:
\* P * process_batch_size * floor(L / real_batch_size).
C12_DropLastTotal ==
    (drop_last /\ StreamDone) =>
        SumOut(num_processes) =
            num_processes * process_batch_size * (StreamLen \div real_batch_size)

C12_Witness ==
    /\ drop_last /\ StreamDone
    /\ StreamLen % real_batch_size # 0
    /\ SumOut(num_processes) > 0
    /\ SumOut(num_processes) # num_processes * (StreamLen \div num_processes)

\* The filled real batches, the partial one the stream ends with, and the
\* batch that completes it.
FilledBatches == StreamLen \div real_batch_size
Leftover == SubSeq(iterable_dataset, FilledBatches * real_batch_size + 1, StreamLen)
FirstFilled ==
    IF FilledBatches > 0 THEN SubSeq(iterable_dataset, 1, real_batch_size) ELSE Leftover

RECURSIVE Copies(_, _)
Copies(s, c) == IF c = 0 THEN <<>> ELSE s \o Copies(s, c - 1)

\* The leftover followed by the fewest whole copies that make it long enough.
Extended ==
    Leftover \o Copies(FirstFilled,
                       CeilDiv(real_batch_size - Len(Leftover), Len(FirstFilled)))

\* The window of process p in every filled real batch, in order.
RECURSIVE FilledWindows(_, _)
FilledWindows(k, p) ==
    IF k = 0 THEN <<>>
    ELSE FilledWindows(k - 1, p)
         \o SubSeq(iterable_dataset,
                   (k - 1) * real_batch_size + p * process_batch_size + 1,
                   (k - 1) * real_batch_size + (p + 1) * process_batch_size)

\* C13: without drop_last a partial last real batch is extended by whole
\* copies of the first filled real batch (of itself when none was filled)
\* until it is long enough, each process yields its window of it, and all
\* processes yield equally many elements, a multiple of process_batch_size.
C13_LeftoverCompleted ==
    (~drop_last /\ StreamDone /\ Len(Leftover) > 0) =>
        \A p \in Procs :
            /\ StreamOut(p) = FilledWindows(FilledBatches, p)
                   \o SubSeq(Extended, p * process_batch_size + 1,
                                        (p + 1) * process_batch_size)
            /\ Len(StreamOut(p)) = Len(StreamOut(0))
            /\ Len(StreamOut(p)) = (FilledBatches + 1) * process_batch_size

C13_Witness ==
    /\ ~drop_last /\ StreamDone
    /\ iterable_dataset = <<0, 1, 2>> /\ real_batch_size = 8 /\ num_processes = 2
    /\ StreamOut(0) = <<0, 1, 2, 0>> /\ StreamOut(1) = <<1, 2, 0, 1>>

\* ------------------------------------------------------------ skip claims
\* Base batches k .. n-1 (0-based), in order.
BaseFrom(k, n) == SubSeq(base_dataloader, k + 1, n)

\* C14: SkipBatchSampler yields exactly the source sequence from index
\* skip_batches onward (what it has yielded so far is the part of it read).
C14_SkipSamplerSuffix ==
    variant = "skip_sampler" =>
        /\ loader.out = BaseFrom(skip_batches, loader.position)
        /\ loader.pc = "done" => loader.out = BaseFrom(skip_batches, BaseLen)

C14_Witness ==
    /\ variant = "skip_sampler" /\ loader.pc = "done"
    /\ skip_batches = 1 /\ BaseLen = 3
    /\ loader.out = <<base_dataloader[2], base_dataloader[3]>>

\* C15: a DataLoaderShard or SkipDataLoader with skip_batches = k hands its
\* consumer base batches k .. N-1, each once and in order, nothing when
\* k >= N; while it runs it has handed over the first of them.
C15_SkipsFirstBatches ==
    variant \in {"shard", "skip"} =>
        /\ \E m \in 0 .. BaseLen : loader.out = BaseFrom(skip_batches, m)
        /\ loader.pc = "done" => loader.out = BaseFrom(skip_batches, BaseLen)

C15_Witness ==
    /\ variant = "shard" /\ loader.pc = "done"
    /\ skip_batches = 1 /\ BaseLen = 3
    /\ loader.out = <<base_dataloader[2], base_dataloader[3]>>

\* DataLoaderAdapter.__len__, which DataLoaderShard inherits.
AdapterLen == Len(base_dataloader)

\* SkipBatchSampler.__len__.
SkipSamplerLen == Len(base_dataloader) - skip_batches

\* SkipDataLoader.__len__.
SkipLoaderLen == Len(base_dataloader) - skip_batches

\* len() of the traversed object, and the length it has with nothing skipped.
ReportedLen ==
    CASE variant = "skip_sampler" -> SkipSamplerLen
      [] variant = "skip" -> SkipLoaderLen
      [] variant = "shard" -> AdapterLen
      [] variant = "dispatcher" -> DispatcherLen
WrappedLen == IF Dispatching THEN DispatcherLen ELSE BaseLen

\* C16: for every skip form the reported length is the wrapped length less
\* skip_batches, and a traversal that has ended has yielded that many batches.
C16_LengthLessSkipped ==
    /\ ~Dispatching /\ loader.pc = "done" =>
           /\ ReportedLen = WrappedLen - skip_batches
           /\ Len(loader.out) = ReportedLen
    /\ Dispatching =>
           \A p \in Procs : Finished(p) =>
               /\ ReportedLen = WrappedLen - skip_batches
               /\ Len(disp[p].out) = ReportedLen

\* ------------------------------------------------------ construction claims
\* C17: constructing a BatchSamplerShard fails with a configuration error
\* when split_batches and the batch size is no multiple of num_processes, and
\* when even_batches and the source has no batch_size; in every other case
\* it succeeds.
C17_ConstructionOutcome ==
    variant = "sampler" =>
        \A p \in Procs : shard[p].pc # "new" =>
            IF \/ split_batches /\ has_batch_size /\ batch_size % num_processes # 0
               \/ even_batches /\ ~has_batch_size
            THEN shard[p].pc = "config_error"
            ELSE shard[p].pc \in {"iter", "done"}

\* C18: with split_batches and a batch size that is no multiple of
\* num_processes, for every batch size >= 1, neither IterableDatasetShard nor
\* prepare_data_loader gets past construction: both raise the
\* configuration error.
C18_IndivisibleRejected ==
    (variant = "stream" /\ split_batches /\ batch_size % num_processes # 0) =>
        \A p \in Procs : iterable_shard[p].pc \in {"new", "prepare", "config_error"}

\* ----------------------------------------------------------- session claims
\* The state attributes of the loader objects: the one of DataLoaderShard /
\* SkipDataLoader, or the dispatcher of each process.
LoaderIds == IF Dispatching THEN Procs ELSE {0}
LoaderOf(i) == IF Dispatching THEN disp[i] ELSE loader

\* The sampler of the loader is cut over the processes: a dispatcher, or a
\* DataLoaderShard over a BatchSamplerShard.
Sharded == Dispatching \/ (variant = "shard" /\ has_num_processes)

\* The number of dataset items the processes take together in one step:
\* one batch of the wrapped sampler when it is cut into slices or handed
\* unsharded to every process, num_processes batches otherwise.
CombinedBatchSize ==
    IF Sharded /\ ~split_batches THEN num_processes * batch_size ELSE batch_size

\* Both operands of the remainder can be read: the loader has _drop_last, the
\* dataset is sized, the batch size exists and, where the dispatcher has to
\* multiply by it, so does the number of processes.
Determinable ==
    /\ variant # "skip"
    /\ dataset_length # -1
    /\ has_batch_size
    /\ (Dispatching /\ ~split_batches) => has_num_processes

\* C19: whatever earlier traversals left, a step that calls begin() leaves
\* end_of_dataloader false and remainder = dataset length mod total batch
\* size when drop_last is false and both can be determined, -1 otherwise;
\* a failure to determine them is absorbed: the loader is registered by the
\* same call (an empty DataLoaderShard traversal also ends in that step).
C19_BeginResets ==
    [][\A i \in LoaderIds :
          (IF Dispatching THEN disp'[i] ELSE loader').begins = LoaderOf(i).begins + 1 =>
              LET l == IF Dispatching THEN disp'[i] ELSE loader'
              IN  /\ ~l.end_of_dataloader
                  /\ IF ~drop_last /\ Determinable
                     THEN /\ l.remainder \in 0 .. CombinedBatchSize - 1
                          /\ \E q \in 0 .. dataset_length :
                                 dataset_length = q * CombinedBatchSize + l.remainder
                     ELSE l.remainder = -1
                  /\ l.registered \/ l.ends = LoaderOf(i).ends + 1
                  /\ l.pc \in {"fetch", "loop", "done"}]_vars

\* The second traversal of a dispatcher has just called begin(): the flag the
\* first traversal set is cleared, the remainder is computed again.
C19_Witness ==
    /\ Dispatching /\ ~drop_last /\ Determinable
    /\ num_processes = 2 /\ ~split_batches /\ has_num_processes /\ dataset_length = 1
    /\ disp[0].begins = 2 /\ disp[0].pc = "fetch" /\ disp[0].rounds = 0
    /\ ~disp[0].end_of_dataloader /\ disp[0].registered
    /\ disp[0].remainder = 1

\* C20: over traversals that run to their end without error, every begin()
\* is matched by one end() before the next begin(): while a traversal is in
\* progress the loader is registered and has one begin() more than end()s,
\* before, between and after traversals it is not registered and the calls
\* are paired.
C20_RegisteredWhileTraversing ==
    \A i \in LoaderIds :
        LET l == LoaderOf(i)
        IN  /\ l.pc \in {"start", "done"} =>
                   ~l.registered /\ l.ends = l.begins
            /\ l.pc \in {"fetch", "remainder", "loop", "slice", "last"} =>
                   l.registered /\ l.begins = l.ends + 1

\* A DataLoaderShard has been traversed twice to the end.
C20_Witness ==
    /\ variant = "shard" /\ loader.pc = "done" /\ BaseLen = 2
    /\ loader.begins = 2 /\ loader.ends = 2 /\ ~loader.registered
    /\ Len(loader.out) = 2

\* ------------------------------------------- _update_state_dict on its own
\* One call of _update_state_dict on an adapter whose base loader holds an
\* arbitrary checkpoint; a base loader without state_dict captures nothing.
UpdateStateDictCall ==
    /\ adapter.pc = "ready"
    /\ adapter' =
         IF adapter.stateful
         THEN [adapter EXCEPT !.pc = "captured",
                              !.dl_state_dict =
                                  UpdateStateDict(adapter.base_state,
                                                  adapter.distributed,
                                                  adapter.end_of_dataloader)]
         ELSE [adapter EXCEPT !.pc = "skipped"]
    /\ UNCHANGED <<config, streamVars, loaderVars, shard, topology>>

\* More than one process implies a distributed setup.
InitCheckpoint ==
    /\ num_processes \in 1 .. MaxProcesses
    /\ batch_size \in 1 .. MaxBatchSize
    /\ \E a \in 0 .. MaxYielded, b \in 0 .. MaxYielded, c \in -1 .. MaxYielded,
          finished \in BOOLEAN, eod \in BOOLEAN, stateful \in BOOLEAN,
          distributed \in BOOLEAN :
           /\ num_processes > 1 => distributed
           /\ adapter = [pc |-> "ready", stateful |-> stateful,
                         distributed |-> distributed,
                         base_state |-> StateDict(a, b, c, finished, 0),
                         end_of_dataloader |-> eod,
                         dl_state_dict |-> NoStateDict]
    /\ drop_last = FALSE
    /\ split_batches = FALSE
    /\ even_batches = TRUE
    /\ batch_sampler = <<>>
    /\ has_batch_size = TRUE
    /\ has_num_processes = TRUE
    /\ dataset_length = 0
    /\ shard = <<>>
    /\ variant = "adapter"
    /\ base_dataloader = <<>>
    /\ skip_batches = 0
    /\ disp = <<>>
    /\ channel = <<>>
    /\ loader = <<>>
    /\ iterable_dataset = <<>>
    /\ iterable_shard = <<>>
    /\ topology = <<>>
    /\ ragged = 0
    /\ submesh_tp = FALSE

NextCheckpoint == UpdateStateDictCall

SpecCheckpoint == InitCheckpoint /\ [][NextCheckpoint]_vars

\* C21: the captured checkpoint is the base loader's with, under P > 1
\* processes, each of the two yielded counters that is > 0 lowered by P - 1
\* and a samples_yielded > 0 lowered by batch_size * (P - 1); counters at 0
\* and all other keys are unchanged, nothing changes with one process, and
\* the finished flag is end_of_dataloader at the capture.
C21_CapturedCheckpoint ==
    (variant = "adapter" /\ adapter.pc = "captured") =>
        LET base == adapter.base_state
            sd == adapter.dl_state_dict
            P == num_processes
            Expect(counter, amount) ==
                IF P > 1 /\ counter > 0 THEN counter - amount ELSE counter
        IN  /\ sd.sampler_iter_yielded = Expect(base.sampler_iter_yielded, P - 1)
            /\ sd.num_yielded = Expect(base.num_yielded, P - 1)
            /\ sd.samples_yielded = Expect(base.samples_yielded, batch_size * (P - 1))
            /\ sd.other = base.other
            /\ sd.iterator_finished = adapter.end_of_dataloader

\* Three processes, batch size 2: 2 batches / 4 samples become 0 / 0.
C21_Witness ==
    /\ variant = "adapter" /\ adapter.pc = "captured"
    /\ num_processes = 3 /\ batch_size = 2
    /\ adapter.base_state.num_yielded = 2 /\ adapter.dl_state_dict.num_yielded = 0
    /\ adapter.base_state.sampler_iter_yielded = 0
    /\ adapter.base_state.samples_yielded = 2 /\ adapter.dl_state_dict.samples_yielded = -2
    /\ adapter.dl_state_dict.iterator_finished /\ ~adapter.base_state.iterator_finished

\* ------------------------------------- prepare_data_loader: device mesh
\* A device mesh is a sequence of axes <<name, size>> with distinct names;
\* global ranks are laid out row-major, the last axis varying fastest.
AxisNames == {"dp_replicate", "dp_shard", "cp", "tp", "dp"}

RECURSIVE MeshSize(_)
MeshSize(mesh) == IF mesh = <<>> THEN 1 ELSE mesh[1][2] * MeshSize(Tail(mesh))

mesh_dim_names(mesh) == {mesh[i][1] : i \in 1 .. Len(mesh)}

\* torch_device_mesh[name].size() if name in mesh_dim_names else 1
SubmeshSize(mesh, name) ==
    IF name \in mesh_dim_names(mesh)
    THEN mesh[CHOOSE i \in 1 .. Len(mesh) : mesh[i][1] = name][2]
    ELSE 1

\* The topology remapping of prepare_data_loader for one process: DeepSpeed
\* divides both numbers by the "tp" size; otherwise process_index is divided
\* by the "tp" and "cp" sizes and num_processes is the product of the
\* "dp_shard" and "dp_replicate" sizes.
RemapProcessIndex(mesh, deepspeed, index) ==
    IF deepspeed
    THEN index \div SubmeshSize(mesh, "tp")
    ELSE index \div (SubmeshSize(mesh, "tp") * SubmeshSize(mesh, "cp"))

RemapNumProcesses(mesh, deepspeed, count) ==
    IF deepspeed
    THEN count \div SubmeshSize(mesh, "tp")
    ELSE SubmeshSize(mesh, "dp_shard") * SubmeshSize(mesh, "dp_replicate")

RemapTopology ==
    /\ topology.pc = "given"
    /\ topology' =
         [topology EXCEPT
            !.pc = "remapped",
            !.process_index =
                RemapProcessIndex(topology.mesh, topology.deepspeed, @),
            !.num_processes =
                RemapNumProcesses(topology.mesh, topology.deepspeed, @)]
    /\ UNCHANGED <<config, streamVars, loaderVars, shard, adapter>>

Meshes ==
    {mesh \in UNION {[1 .. k -> AxisNames \X (1 .. MaxAxisSize)] : k \in 1 .. MaxAxes} :
        \A i, j \in 1 .. Len(mesh) : mesh[i][1] = mesh[j][1] => i = j}

\* Every process of the world calls prepare_data_loader with the defaults of
\* PartialState: its global rank and the world size, the size of the mesh.
InitMesh ==
    /\ \E mesh \in Meshes, deepspeed \in BOOLEAN :
         \E rank \in 0 .. MeshSize(mesh) - 1 :
            /\ num_processes = MeshSize(mesh)
            /\ topology = [pc |-> "given", mesh |-> mesh, deepspeed |-> deepspeed,
                           rank |-> rank, process_index |-> rank,
                           num_processes |-> MeshSize(mesh)]
    /\ batch_size = 1
    /\ drop_last = FALSE
    /\ split_batches = FALSE
    /\ even_batches = TRUE
    /\ batch_sampler = <<>>
    /\ has_batch_size = TRUE
    /\ has_num_processes = TRUE
    /\ dataset_length = 0
    /\ shard = <<>>
    /\ variant = "mesh"
    /\ base_dataloader = <<>>
    /\ skip_batches = 0
    /\ disp = <<>>
    /\ channel = <<>>
    /\ loader = <<>>
    /\ iterable_dataset = <<>>
    /\ iterable_shard = <<>>
    /\ adapter = <<>>
    /\ ragged = 0
    /\ submesh_tp = FALSE

NextMesh == RemapTopology

SpecMesh == InitMesh /\ [][NextMesh]_vars

\* Coordinate of a global rank along axis i of a row-major mesh.
RECURSIVE Stride(_, _)
Stride(mesh, i) == IF i >= Len(mesh) THEN 1 ELSE mesh[i + 1][2] * Stride(mesh, i + 1)

Coordinate(mesh, rank, i) == (rank \div Stride(mesh, i)) % mesh[i][2]

\* Two ranks that differ only along the "tp" or "cp" axis.
ReplicatePeers(mesh, r1, r2) ==
    \A i \in 1 .. Len(mesh) :
        mesh[i][1] \notin {"tp", "cp"} => Coordinate(mesh, r1, i) = Coordinate(mesh, r2, i)

\* C22: for every device mesh whose axis sizes multiply to the world size,
\* whatever its axis names, and every global rank, the remapped pair has
\* process_index < num_processes, and two ranks that differ only along the
\* tp or cp axis get the same remapped process_index.
C22_RemappedTopology ==
    (variant = "mesh" /\ topology.pc = "remapped") =>
        /\ topology.process_index < topology.num_processes
        /\ \A peer \in 0 .. MeshSize(topology.mesh) - 1 :
              ReplicatePeers(topology.mesh, topology.rank, peer) =>
                  RemapProcessIndex(topology.mesh, topology.deepspeed, peer)
                      = topology.process_index

\* ------------------------------------------ dispatcher: collective calls
\* Any step of process p of the dispatcher.
DispatcherStep(p) ==
    \/ p = 0 /\ FetchBatchesMain
    \/ DispatcherBegin(p)
    \/ FetchBatchesOther(p)
    \/ FetchRemainderOther(p)
    \/ DispatcherFinish(p)
    \/ DispatcherRaise(p)
    \/ DispatchBatch(p)
    \/ SliceAndYield(p)

IsPrefix(s, t) == Len(s) <= Len(t) /\ SubSeq(t, 1, Len(s)) = s

CountOf(kind, s, n) == Cardinality({i \in 1 .. n : s[i] = kind})

\* C23: all processes issue the same sequence of collective calls (the
\* calls of a process are at every moment a prefix of those of process 0,
\* and equal to them once both have returned), the metadata broadcast of a
\* round precedes its data broadcast, and no process that is still in its
\* traversal is blocked once process 0 has returned.
C23_SameCollectives ==
    Dispatching =>
        \A p \in Procs :
            /\ IsPrefix(disp[p].calls, disp[0].calls)
            /\ (disp[p].pc = "done" /\ disp[0].pc = "done") =>
                    disp[p].calls = disp[0].calls
            /\ \A i \in 1 .. Len(disp[p].calls) :
                    disp[p].calls[i] = "data" =>
                        CountOf("data", disp[p].calls, i)
                            <= CountOf("info", disp[p].calls, i - 1)
            /\ (disp[0].pc = "done" /\ ~Finished(p)) => ENABLED DispatcherStep(p)

\* Two processes, three base batches, no splitting: a full round, then the
\* stop and the remainder announced by two metadata broadcasts in a row.
C23_Witness ==
    /\ Dispatching /\ AllReturned /\ num_processes = 2
    /\ disp[1].calls = <<"info", "data", "info", "info", "data">>
    /\ disp[0].calls = disp[1].calls

\* ------------------------------- dispatcher: more processes, ragged batches
\* A DataLoaderDispatcher on up to MaxProcesses processes over a base loader
\* of batches of one item, the last of which may be of another trailing
\* shape than the rest (a sequence of another length, say).  With a
\* tensor-parallel mesh the loader is the one prepare_data_loader builds by
\* default: no split_batches, no drop_last, batches of one shape.
InitDispatch ==
    /\ variant = "dispatcher"
    /\ num_processes \in 1 .. MaxProcesses
    /\ batch_size = 1
    /\ drop_last \in BOOLEAN
    /\ split_batches \in BOOLEAN
    /\ skip_batches = 0
    /\ \E n \in 0 .. MaxDispatchItems :
           /\ base_dataloader = SourceBatches(n, batch_size, FALSE)
           /\ dataset_length = n
           /\ ragged \in {0, n}
    /\ disp = [p \in Procs |-> NewDispatcher]
    /\ channel = <<>>
    /\ loader = NewLoader
    /\ even_batches = TRUE
    /\ batch_sampler = <<>>
    /\ has_batch_size = TRUE
    /\ has_num_processes = TRUE
    /\ shard = <<>>
    /\ iterable_dataset = <<>>
    /\ iterable_shard = <<>>
    /\ adapter = <<>>
    /\ topology = <<>>
    /\ submesh_tp \in BOOLEAN
    /\ submesh_tp => (~split_batches /\ ~drop_last /\ ragged = 0)

SpecDispatch == InitDispatch /\ [][NextDispatcher]_vars

\* C24: in every execution, those in which concatenating the batches
\* fetched on process 0 fails included, no process leaves its traversal
\* (returning or raising) while a peer is waiting, or will wait, at a
\* broadcast for it: once process 0 has left, every process still in its
\* traversal can take its next step.
C24_NoPeerLeftWaiting ==
    Dispatching =>
        \A p \in Procs :
            (Finished(0) /\ ~Finished(p)) => ENABLED DispatcherStep(p)

\* ------------------------------------------- dispatcher: remainder round
\* The combined batches process 0 has broadcast, in order.
DataBroadcasts == SelectSeq(channel, LAMBDA m : m.kind = "data")

\* The base batches of round k (from 1) without splitting, concatenated.
RoundBatches(k) ==
    Flatten(SubSeq(base_dataloader, (k - 1) * num_processes + 1,
                   Min(k * num_processes, BaseLen)))

\* The items a process has been handed.
Delivered(p) ==
    UNION {{disp[p].out[i].data[j] : j \in 1 .. Len(disp[p].out[i].data)} :
              i \in 1 .. Len(disp[p].out)}

\* C25: without split_batches, when the base loader ends after r batches
\* of a round, 0 < r < P: with drop_last=false one further round is
\* dispatched whose combined batch is the concatenation of those r batches
\* in fetch order; with drop_last=true those r batches are delivered to no
\* process and the traversal ends for all; with r = 0 no further round is
\* dispatched.  (Batches that concatenate raises on, and the one-batch
\* rounds of a tensor-parallel mesh, are another matter.)
C25_RemainderRound ==
    (Dispatching /\ ~split_batches /\ ~submesh_tp /\ ragged = 0) =>
        LET P == num_processes
            full == BaseLen \div P
            r == BaseLen % P
            sent == DataBroadcasts
        IN  /\ \A p \in Procs :
                  (Finished(0) /\ ~Finished(p)) => ENABLED DispatcherStep(p)
            /\ AllFinished =>
                  /\ Len(sent) = full + (IF r > 0 /\ ~drop_last THEN 1 ELSE 0)
                  /\ \A k \in 1 .. Len(sent) : sent[k].batch = RoundBatches(k)
                  /\ (r > 0 /\ ~drop_last) =>
                        \A p \in Procs :
                            /\ disp[p].pc = "done"
                            /\ Len(disp[p].out) = full + 1 - Min(skip_batches, full + 1)
                  /\ (r > 0 /\ drop_last) =>
                        \A p \in Procs, k \in full * P + 1 .. BaseLen :
                            \A j \in 1 .. Len(base_dataloader[k]) :
                                base_dataloader[k][j] \notin Delivered(p)

\* Three processes, two base batches: one round, the remainder, made of
\* both batches in order.
C25_Witness ==
    /\ Dispatching /\ ~split_batches /\ ragged = 0 /\ ~drop_last
    /\ num_processes = 3 /\ BaseLen = 2 /\ AllReturned
    /\ Len(DataBroadcasts) = 1
    /\ DataBroadcasts[1].batch = base_dataloader[1] \o base_dataloader[2]

\* --------------------------------------------------- dispatcher: padding
\* C26: with drop_last=false, when the size S of the final round's combined
\* batch is not divisible by P, the slice of every process holds exactly
\* floor(S / P) + 1 items, taken from the final combined batch followed by
\* the leading items of the first round's combined batch, in order; also
\* when the first combined batch holds fewer than P items.
C26_PaddedFinalRound ==
    (Dispatching /\ ~drop_last) =>
        \A p \in Procs :
            LET d == disp[p]
                e == d.out[Len(d.out)]
                final == DataBroadcasts[e.round + 1].batch
                first == DataBroadcasts[1].batch
                S == Len(final)
                size == (S \div num_processes) + 1
            IN  (Len(d.out) > 0 /\ e.last /\ S % num_processes # 0) =>
                    /\ Len(e.data) = size
                    /\ \A j \in 1 .. Len(e.data) :
                          /\ p * size + j <= Len(final \o first)
                          /\ e.data[j] = (final \o first)[p * size + j]

\* ------------------------------------- dispatcher: who reads the base loader
\* C27: only process 0 advances the base loader: the iterator of a process
\* with index # 0 is never advanced, and process 0 has advanced its own
\* exactly P times for every complete round it fetched without
\* split_batches, exactly once with split_batches (and up to the end of
\* the base loader once a fetch has met the stop).
C27_OnlyMainAdvances ==
    Dispatching =>
        /\ \A p \in Procs : p # 0 => disp[p].main_iterator = 0
        /\ LET d == disp[0]
               per == IF split_batches THEN 1 ELSE num_processes
               complete == CountOf(FALSE, d.seen, Len(d.seen))
           IN  IF \E i \in 1 .. Len(d.seen) : d.seen[i]
               THEN d.main_iterator = BaseLen /\ complete = BaseLen \div per
               ELSE d.main_iterator = per * complete

\* Two processes, four base batches, no splitting: two rounds handed to
\* process 1, whose iterator has not moved, while process 0 advanced four times.
C27_Witness ==
    /\ Dispatching /\ ~split_batches /\ num_processes = 2 /\ AllReturned
    /\ skip_batches = 0 /\ Len(disp[1].out) = 2
    /\ disp[0].main_iterator = 4 /\ disp[1].main_iterator = 0

\* ------------------------------------ the end flag over several traversals
\* A loader with skip_batches over a sized dataset, traversed up to
\* MaxTraversals times.
InitEpochs ==
    /\ variant \in {"dispatcher", "shard", "skip"}
    /\ num_processes \in 1 .. MaxWorld
    /\ batch_size = 1
    /\ drop_last \in BOOLEAN
    /\ split_batches \in BOOLEAN
    /\ skip_batches \in 0 .. MaxSkip
    /\ has_batch_size = TRUE
    /\ has_num_processes = TRUE
    /\ \E n \in 0 .. MaxSessionItems :
           /\ base_dataloader = SourceBatches(n, batch_size, drop_last)
           /\ dataset_length = n
    /\ ragged = 0
    /\ disp = [p \in Procs |-> NewDispatcher]
    /\ channel = <<>>
    /\ loader = NewLoader
    /\ even_batches = TRUE
    /\ batch_sampler = <<>>
    /\ shard = <<>>
    /\ iterable_dataset = <<>>
    /\ iterable_shard = <<>>
    /\ adapter = <<>>
    /\ topology = <<>>
    /\ submesh_tp = FALSE

SpecEpochs == InitEpochs /\ [][NextSession]_vars

\* end_of_dataloader as read at each batch handed to the consumer: false
\* at every batch but the last of a traversal that returned, true at that one.
FlagsInOrder(flags, returned) ==
    /\ \A i \in 1 .. Len(flags) - 1 : ~flags[i]
    /\ (returned /\ Len(flags) > 0) => flags[Len(flags)]

\* C28: in DataLoaderShard and DataLoaderDispatcher, for every skip_batches,
\* end_of_dataloader is false when each batch other than the last is handed
\* to the consumer and true when the last one is, the last batch of the
\* source being handed unless it is skipped; it is false again once the
\* next traversal has begun, until that traversal reaches its own end.
C28_EndFlag ==
    /\ variant = "shard" =>
          /\ FlagsInOrder(loader.flags, loader.pc = "done")
          /\ (loader.pc = "done" /\ skip_batches < BaseLen) =>
                 /\ Len(loader.out) = BaseLen - skip_batches
                 /\ loader.end_of_dataloader
          /\ loader.pc = "loop" => ~loader.end_of_dataloader
    /\ Dispatching =>
          \A p \in Procs :
              LET d == disp[p]
              IN  /\ FlagsInOrder([i \in 1 .. Len(d.out) |-> d.out[i].last],
                                  d.pc = "done")
                  /\ (d.pc = "done" /\ skip_batches < DispatcherLen) =>
                         /\ Len(d.out) = DispatcherLen - skip_batches
                         /\ d.end_of_dataloader
                  /\ \A i \in 1 .. Len(d.out) :
                         d.out[i].last => d.end_of_dataloader
                  /\ (d.pc \in {"fetch", "remainder", "slice"}
                          \/ (d.pc = "loop" /\ ~d.stop_iteration))
                         => ~d.end_of_dataloader

\* The second traversal of a dispatcher has returned: its first batch was
\* handed with the flag false, after the first traversal had left it true.
C28_Witness ==
    /\ Dispatching /\ num_processes = 2
    /\ disp[1].begins = 2 /\ disp[1].pc = "done"
    /\ Len(disp[1].out) = 2
    /\ ~disp[1].out[1].last /\ disp[1].out[2].last

\* ---------------------------------------- DataLoaderShard: the checkpoint
\* C29: in DataLoaderShard on a single process, when batch i is handed to
\* the consumer state_dict() is the checkpoint of the base loader taken
\* after exactly i + 1 advances, although next() has been called i + 2
\* times on it; for the last batch it is taken after the exhaustion and
\* flagged _iterator_finished, for the earlier ones it is flagged false.
C29_CheckpointBehindReadAhead ==
    (variant = "shard" /\ num_processes = 1) =>
        \A j \in 1 .. Len(loader.states) :
            LET i == skip_batches + j - 1
                last == i = BaseLen - 1
                sd == loader.states[j].dl
            IN  /\ sd.other = <<i + 1, last>>
                /\ sd.num_yielded = i + 1
                /\ sd.sampler_iter_yielded = i + 1
                /\ sd.iterator_finished = last
                /\ loader.states[j].advanced = i + 2

\* Three batches handed, none skipped: the checkpoints of batches 0, 1, 2.
C29_Witness ==
    /\ variant = "shard" /\ num_processes = 1 /\ skip_batches = 0
    /\ loader.pc = "done" /\ BaseLen = 3 /\ Len(loader.states) = 3
    /\ loader.states[2].dl.num_yielded = 2 /\ ~loader.states[2].dl.iterator_finished
    /\ loader.states[3].dl.num_yielded = 3 /\ loader.states[3].dl.iterator_finished

\* ------------------------------------------- dispatcher: the checkpoint
\* The base batches that make up rounds 0 .. k.
BatchesThroughRound(k) ==
    IF split_batches \/ submesh_tp THEN k + 1
    ELSE Min(num_processes * (k + 1), BaseLen)

\* C30: on process 0 of a dispatcher with P >= 2, when round k is handed to
\* the consumer the adjusted _num_yielded of the captured checkpoint is the
\* number of base batches that make up rounds 0 .. k, with and without
\* split_batches, whether or not the round after k is complete.
C30_CheckpointCountsRounds ==
    (Dispatching /\ num_processes >= 2) =>
        \A j \in 1 .. Len(disp[0].out) :
            LET e == disp[0].out[j]
            IN  e.dl.num_yielded = BatchesThroughRound(e.round)

\* ------------------------------------- IterableDatasetShard: the windows
\* What process p has yielded from the filled real batches.
FilledPart(p) ==
    SubSeq(StreamOut(p), 1, Min(Len(StreamOut(p)), FilledBatches * process_batch_size))

\* C31: without split_batches, or with it and batch_size divisible by P,
\* the windows of the P processes in a filled real batch are pairwise
\* disjoint and cover it: every element of a filled real batch is yielded
\* by exactly one process, once, in stream order within that process.
C31_WindowsPartition ==
    (variant = "stream" /\ (~split_batches \/ batch_size % num_processes = 0)) =>
        /\ \A p \in Procs :
              \A i, j \in 1 .. Len(FilledPart(p)) :
                  i < j => FilledPart(p)[i] < FilledPart(p)[j]
        /\ StreamDone =>
              \A e \in 0 .. FilledBatches * real_batch_size - 1 :
                  Cardinality({<<p, i>> \in Procs \X (1 .. MaxItems) :
                                  i <= Len(FilledPart(p)) /\ FilledPart(p)[i] = e}) = 1

\* Eight elements, two processes, batch size 2: two filled real batches.
C31_Witness ==
    /\ variant = "stream" /\ StreamDone /\ ~split_batches
    /\ num_processes = 2 /\ batch_size = 2 /\ StreamLen = 8
    /\ StreamOut(0) = <<0, 1, 4, 5>> /\ StreamOut(1) = <<2, 3, 6, 7>>

\* ------------------------------------ dispatcher: tensor-parallel mesh only
\* C32: with a tensor-parallel-only mesh and split_batches=false each round
\* advances the base loader by exactly one batch, every process is handed
\* a batch identical to that base batch (so all peers receive identical
\* batches in every round), and the traversal yields as many rounds as the
\* base loader has batches.
C32_ReplicatedRounds ==
    (Dispatching /\ submesh_tp /\ ~split_batches) =>
        /\ \A p \in Procs :
              /\ \A j \in 1 .. Len(disp[p].out) :
                    /\ disp[p].out[j].round = j - 1
                    /\ disp[p].out[j].data = base_dataloader[j]
              /\ disp[p].pc = "done" => Len(disp[p].out) = BaseLen
        /\ disp[0].main_iterator = Min(Len(disp[0].seen), BaseLen)
        /\ (AllFinished /\ BaseLen > 0) => AllReturned

\* Three processes, three base batches: three rounds of identical batches.
C32_Witness ==
    /\ Dispatching /\ submesh_tp /\ ~split_batches /\ AllReturned
    /\ num_processes = 3 /\ BaseLen = 3
    /\ \A p \in Procs : Len(disp[p].out) = 3 /\ disp[p].out[3].data = base_dataloader[3]

\* ------------------------------------------- BatchSamplerShard: the length
\* C33: for every configuration the constructor accepts, every source and
\* every process index, len(shard) is the number of batches that iterating
\* the shard on that process yields.
C33_LengthIsBatchesYielded ==
    variant = "sampler" =>
        \A p \in Procs :
            shard[p].pc = "done" => Len(shard[p].out) = ShardLen(p)

\* ---------------------------------------- IterableDatasetShard: the length
\* C34: for every sized stream and every configuration the constructor
\* accepts, len(shard) is the number of elements that iterating the shard on
\* one process yields.
C34_LengthIsElementsYielded ==
    variant = "stream" =>
        \A p \in Procs :
            iterable_shard[p].pc = "done" => Len(StreamOut(p)) = IterableShardLen

\* ------------------------------------- checkpoint counters during a traversal
\* The counters of yielded batches of a captured checkpoint (the modelled
\* base loader keeps no state of the index sampler, so samples_yielded is
\* absent from its checkpoints).
CountersNonNegative(sd) ==
    sd.sampler_iter_yielded >= 0 /\ sd.num_yielded >= 0

\* C35: for every number of processes and at every point of a traversal at
\* which a checkpoint is captured, the first advance of the base loader
\* included, every counter of the adjusted checkpoint is >= 0.
C35_CountersStayNonNegative ==
    /\ Dispatching =>
          \A p \in Procs :
              /\ CountersNonNegative(disp[p].dl_state_dict)
              /\ \A j \in 1 .. Len(disp[p].out) : CountersNonNegative(disp[p].out[j].dl)
    /\ variant \in {"shard", "skip"} =>
          /\ CountersNonNegative(loader.dl_state_dict)
          /\ \A j \in 1 .. Len(loader.states) : CountersNonNegative(loader.states[j].dl)

\* ------------------------------------------------ abandoned traversals
\* The consumer drops the generator of DataLoaderShard.__iter__ or
\* SkipDataLoader.__iter__ while it is suspended at a yield: no statement
\* after the yield runs (neither __iter__ has a try/finally).
AbandonLoader ==
    /\ variant \in {"shard", "skip"}
    /\ loader.pc \in {"loop", "last"}
    /\ Len(loader.out) > 0
    /\ loader' = [loader EXCEPT !.pc = "abandoned"]
    /\ UNCHANGED <<config, streamVars, pureVars, shard, variant, base_dataloader, skip_batches, disp, channel>>

\* The same for the generator of DataLoaderDispatcher.__iter__ on process p.
AbandonDispatcher(p) ==
    /\ variant = "dispatcher"
    /\ disp[p].pc = "loop"
    /\ Len(disp[p].out) > 0
    /\ disp' = [disp EXCEPT ![p].pc = "abandoned"]
    /\ UNCHANGED <<config, streamVars, pureVars, shard, variant, base_dataloader, skip_batches,
                   channel, loader>>

\* The program calls set_epoch(epoch) on a DataLoaderShard before a
\* traversal; manual counts these calls.
SetEpochLoader ==
    /\ variant = "shard"
    /\ loader.pc = "start"
    /\ loader.manual < MaxSetEpoch
    /\ \E epoch \in 0 .. MaxEpoch :
           loader' = [set_epoch(loader, epoch) EXCEPT !.manual = loader.manual + 1]
    /\ UNCHANGED <<config, streamVars, pureVars, shard, variant, base_dataloader, skip_batches, disp, channel>>

\* The same on the DataLoaderDispatcher of process p.
SetEpochDispatcher(p) ==
    /\ variant = "dispatcher"
    /\ disp[p].pc = "start"
    /\ disp[p].manual < MaxSetEpoch
    /\ \E epoch \in 0 .. MaxEpoch :
           disp' = [disp EXCEPT ![p] =
                      [set_epoch(disp[p], epoch) EXCEPT !.manual = disp[p].manual + 1]]
    /\ UNCHANGED <<config, streamVars, pureVars, shard, variant, base_dataloader, skip_batches,
                   channel, loader>>

\* Traversals that run to the end, end by an error or are abandoned, with
\* calls of set_epoch between them.
NextAbandon ==
    \/ NextSession
    \/ AbandonLoader
    \/ \E p \in Procs : AbandonDispatcher(p)
    \/ SetEpochLoader
    \/ \E p \in Procs : SetEpochDispatcher(p)

\* The loaders of InitEpochs that pad the last round.
InitAbandon == InitEpochs /\ ~drop_last

SpecAbandon == InitAbandon /\ [][NextAbandon]_vars

\* The traversals begun so far all ran to the end of the base loader.
RanToExhaustion(l) == l.pc = "done"
\* A traversal is in progress: begin() has run, the generator is alive.
InTraversal(l) == l.pc \notin {"start", "done", "error", "abandoned"}

\* C36: in DataLoaderShard and DataLoaderDispatcher every traversal that runs
\* until the base loader is exhausted, one over a base loader without batches
\* included, increases iteration by exactly one, so that without a manual
\* set_epoch the n-th traversal reseeds with epoch n - 1; an abandoned
\* traversal leaves iteration unchanged.
C36_EpochCounter ==
    LET Counts(l) ==
            /\ RanToExhaustion(l) => l.iteration = l.epoch + 1
            /\ (InTraversal(l) \/ l.pc = "abandoned") => l.iteration = l.epoch
            /\ (l.manual = 0 /\ l.begins > 0) => l.epoch = l.begins - 1
    IN  /\ variant = "shard" => Counts(loader)
        /\ Dispatching => \A p \in Procs : Counts(disp[p])

\* ------------------------------------------ SkipDataLoader: end of stream
\* C37: when batches remain after the skip, at the moment SkipDataLoader
\* hands the last of them to the consumer end_of_dataloader is true and the
\* captured checkpoint is tagged as finished.
C37_SkipLoaderEndFlag ==
    (variant = "skip" /\ loader.pc = "done" /\ Len(loader.out) > 0) =>
        /\ loader.flags[Len(loader.flags)]
        /\ loader.states[Len(loader.states)].dl.iterator_finished

\* ------------------------------------ BatchSamplerShard: nothing is lost
\* How many times index i is yielded by the processes 0 .. P - 1 together.
RECURSIVE Occurrences(_, _)
Occurrences(i, P) ==
    IF P = 0 THEN 0
    ELSE LET yielded == Flatten(shard[P - 1].out)
         IN  Cardinality({k \in 1 .. Len(yielded) : yielded[k] = i})
             + Occurrences(i, P - 1)

\* C38: with drop_last = false, in both strategies, every index of the
\* source is yielded by at least one process, and with even_batches = false
\* every index is yielded exactly once over all processes.
C38_NoSampleLost ==
    (variant = "sampler" /\ ~drop_last /\ AllDone) =>
        \A k \in 1 .. Len(SrcItems) :
            LET n == Occurrences(SrcItems[k], num_processes)
            IN  n >= 1 /\ (~even_batches => n = 1)

\* Five indices in batches of two over two processes, uneven tail: process 0
\* yields [0,1] and [4], process 1 yields [2,3].
C38_Witness ==
    /\ variant = "sampler" /\ ~drop_last /\ ~even_batches /\ ~split_batches /\ AllDone
    /\ num_processes = 2 /\ batch_size = 2
    /\ SrcItems = <<0, 1, 2, 3, 4>>
    /\ shard[0].out = <<<<0, 1>>, <<4>>>> /\ shard[1].out = <<<<2, 3>>>>
    /\ \A i \in 0 .. 4 : Occurrences(i, 2) = 1

\* ------------------------------------------------- registry on early exit
\* C39: for every loader variant, whenever no traversal of the loader is in
\* progress the registry holds no entry for it, also after a traversal the
\* consumer abandoned and after a traversal ended by an error.
C39_RegistryCleanup ==
    /\ variant \in {"shard", "skip"} => (~InTraversal(loader) => ~loader.registered)
    /\ Dispatching => \A p \in Procs : ~InTraversal(disp[p]) => ~disp[p].registered

====
